---- MODULE Spec2Model ----
(***************************************************************************)
(* Model of httpcore's synchronous connection pool (SyncConnectionPool)    *)
(* and its HTTP-proxy specialisation (SyncHTTPProxy).                      *)
(*                                                                         *)
(* Caller threads run request(), close the returned body stream (which     *)
(* calls back into _response_closed), and call close() and                 *)
(* get_connection_info() on the pool.  Every method is cut into steps      *)
(* where another thread can come in between: a step is one line of the     *)
(* source that reads or writes the pool's attributes, the dictionary of    *)
(* connections, a lock, the semaphore or a handle, together with the       *)
(* lines before it that work on locals only.  A lock is entered in a step  *)
(* of its own or with the first line under it, and left with the last      *)
(* line under it only where that line is the last thing the block does to  *)
(* the state; a call into a handle (request, close, mark_as_ready) is one  *)
(* step.                                                                   *)
(*                                                                         *)
(* self._connections is kept as CPython keeps a dict: the entries in the   *)
(* order of their insertion, a deleted one leaving a hole behind, so that  *)
(* an iterator over it does what the interpreter's does.  The order in     *)
(* which a set of handles is iterated is not fixed: which element comes    *)
(* next is chosen freely.  The local `timeout` of request() lives as long  *)
(* as the call: every pass of its loop hands it to _add_to_pool.           *)
(***************************************************************************)
EXTENDS Integers, FiniteSets, Sequences, TLC

\* ---------------------------------------------------------------- bounds
MaxHandles == 3       \* connection handles ever constructed
MaxRequests == 3      \* calls of the pool's public methods ever started
MaxTime == 1          \* last tick of the backend's monotonic clock

Threads == {"t1", "t2"}
Handles == 1..MaxHandles

\* Python's None: as a number where the value is a number or a handle id,
\* as a string where it is a name, an origin or a URL.
None == 0 - 1
Nil == "nil"
NoOrigin == <<"", "", 0>>
NoUrl == [scheme |-> "", host |-> ""]
NoThread == "NoThread"

\* One second of backend time, in clock ticks (a tick is half a second).
OneSecond == 2

\* ---------------------------------------------------------------- values
PENDING == "PENDING"
ACTIVE == "ACTIVE"
READY == "READY"
IDLE == "IDLE"
CLOSED == "CLOSED"
UNBORN == "UNBORN"    \* a handle id no constructor has used yet

ProxyOrigin == <<"http", "p", 8080>>

Urls == [scheme : {"http", "https"}, host : {"a"}]

DefaultPort(scheme) == IF scheme = "https" THEN 443 ELSE 80

url_to_origin(url) == <<url.scheme, url.host, DefaultPort(url.scheme)>>

Origins == {url_to_origin(u) : u \in Urls} \cup {ProxyOrigin}

Min(a, b) == IF a < b THEN a ELSE b

\* ---------------------------------------------------------------- state
VARIABLES
    kind,                       \* "pool" (SyncConnectionPool) or "proxy" (SyncHTTPProxy)
    proxy_mode,                 \* DEFAULT, FORWARD_ONLY, TUNNEL_ONLY (Nil on the base pool)
    http2,                      \* self._http2
    max_connections,            \* self._max_connections (None or a number)
    max_keepalive_connections,  \* self._max_keepalive_connections
    keepalive_expiry,           \* self._keepalive_expiry (ticks, or None)
    connections,                \* self._connections: its entries (key, set of handles), oldest first
    sem_value,                  \* free permits of the semaphores made; the last is self._internal_semaphore
    acquiry_lock,               \* holders of the acquiry locks made; the last is self._internal_connection_acquiry_lock
    next_keepalive_check,       \* self._next_keepalive_check
    clock,                      \* backend.time()
    handles,                    \* the connection handles: id -> fields
    nhandles,                   \* handles constructed so far
    nrequests,                  \* calls of public methods started so far
    pc,                         \* per thread: position in the running method
    loc,                        \* per thread: the locals of the running method
    outcome                     \* per thread: how the last finished call ended

cfgvars == <<kind, proxy_mode, http2, max_connections, max_keepalive_connections,
             keepalive_expiry>>
vars == <<kind, proxy_mode, http2, max_connections, max_keepalive_connections,
          keepalive_expiry, connections, sem_value, acquiry_lock,
          next_keepalive_check, clock, handles, nhandles, nrequests, pc, loc, outcome>>

\* ------------------------------------------------------ connection handle
UnbornHandle ==
    [state |-> UNBORN, origin |-> NoOrigin, proto |-> Nil, expires_at |-> None,
     readable |-> FALSE, streams |-> 0, socket |-> None]

\* SyncHTTPConnection(origin=...): no socket negotiated yet, so PENDING.
\* socket: the socket the tunnel path reads from the handle or hands to it,
\* named by the id of the handle that opened it; None for a handle that was
\* given none and whose own socket nothing reads.
NewHandle(origin) ==
    [state |-> PENDING, origin |-> origin, proto |-> Nil, expires_at |-> None,
     readable |-> FALSE, streams |-> 0, socket |-> None]

is_http11(h) == h.proto = "h11"
is_http2(h) == h.proto = "h2"

\* connection.mark_as_ready(): IDLE -> READY, nothing otherwise.
mark_as_ready(h) == IF h.state = IDLE THEN [h EXCEPT !.state = READY] ELSE h

\* connection.close(): terminal; the state is CLOSED and the socket is freed.
close_handle(h) == [h EXCEPT !.state = CLOSED, !.streams = 0, !.readable = FALSE]

\* What connection.is_socket_readable() can answer: of a handle with a socket
\* whether its peer has hung up; of a CLOSED one, whose socket is freed,
\* either answer.
is_socket_readable(h) == IF h.state = CLOSED THEN BOOLEAN ELSE {h.readable}

\* Protocols the handshake of a PENDING handle can settle on.
Protocols == IF http2 THEN {"h11", "h2"} ELSE {"h11"}

\* Does connection.request() on a handle in this state go ahead?  Otherwise
\* the handle asks for a new connection (NewConnectionRequired).
AcceptsRequest(h) ==
    \/ h.state \in {PENDING, READY, IDLE}
    \/ h.state = ACTIVE /\ is_http2(h)

\* The handle after connection.request() went ahead and returned a response.
AfterRequest(h, proto) ==
    [h EXCEPT !.state = ACTIVE,
              !.proto = IF h.state = PENDING THEN proto ELSE @,
              !.streams = @ + 1]

\* The handle after the body stream of one response was closed
\* (the underlying stream.close()): an HTTP/1.1 handle goes back to IDLE or
\* closes; an HTTP/2 handle goes IDLE with its last stream.
AfterStreamClosed(h, keep) ==
    IF h.state # ACTIVE THEN h
    ELSE IF h.streams > 1 THEN [h EXCEPT !.streams = @ - 1]
    ELSE IF keep THEN [h EXCEPT !.state = IDLE, !.streams = 0]
    ELSE close_handle(h)

\* ------------------------------------------------- semaphore, acquiry lock
\* Both are made on first use by a property that tests hasattr(self, ...)
\* and assigns a new object if the attribute is missing.  Nothing keeps two
\* threads from both finding it missing: each then makes an object of its
\* own, and the one assigned last is the one the attribute keeps.
\* sem_value and acquiry_lock list the objects made, oldest first.  An older
\* object is left out as soon as it is as new and nothing refers to it.

\* hasattr(self, "_internal_semaphore")
sem_exists(value) == Len(value) > 0

\* The attribute self._internal_semaphore, as an index into sem_value.
sem_current(value) == Len(value)

\* self._internal_semaphore = create_semaphore(self._max_connections, ...),
\* with refs the semaphores that some thread holds a reference to.
sem_create(value, refs) ==
    LET kept == IF /\ Len(value) > 0
                   /\ value[Len(value)] = max_connections
                   /\ Len(value) \notin refs
                THEN SubSeq(value, 1, Len(value) - 1)
                ELSE value
    IN  Append(kept, max_connections)

\* semaphore.acquire() on the semaphore s can take a permit (NullSemaphore:
\* always).
sem_can_acquire(value, s) == IF max_connections = None THEN TRUE ELSE value[s] > 0

sem_acquire(value, s) ==
    IF max_connections = None THEN value ELSE [value EXCEPT ![s] = @ - 1]

\* self._connection_semaphore.release(): on the semaphore the attribute holds.
sem_release(value) ==
    IF max_connections = None THEN value
    ELSE [value EXCEPT ![sem_current(value)] = @ + 1]

RECURSIVE sem_taken(_)
sem_taken(value) ==
    IF value = <<>> THEN 0
    ELSE (max_connections - Head(value)) + sem_taken(Tail(value))

\* Permits taken and not given back, over all the semaphores made.
sem_held == IF max_connections = None THEN 0 ELSE sem_taken(sem_value)

\* hasattr(self, "_internal_connection_acquiry_lock")
lock_exists(locks) == Len(locks) > 0

\* The attribute self._internal_connection_acquiry_lock, as an index into
\* acquiry_lock.
lock_current(locks) == Len(locks)

\* self._internal_connection_acquiry_lock = self._backend.create_lock(), with
\* refs the locks that some thread holds a reference to.
lock_create(locks, refs) ==
    LET kept == IF /\ Len(locks) > 0
                   /\ locks[Len(locks)] = NoThread
                   /\ Len(locks) \notin refs
                THEN SubSeq(locks, 1, Len(locks) - 1)
                ELSE locks
    IN  Append(kept, NoThread)

\* Thread t holds one of the acquiry locks.
HoldsAcquiryLock(t) == \E i \in 1..Len(acquiry_lock) : acquiry_lock[i] = t

\* The lock k is free.
lock_free(locks, k) == locks[k] = NoThread

\* with self._connection_acquiry_lock: the lock k is entered by t.
lock_enter(locks, k, t) == [locks EXCEPT ![k] = t]

\* ------------------------------------------------- the dict self._connections
\* A dict keeps an array of entries: a new key is appended to it, a deleted
\* key leaves its entry behind as a hole, and the array is rebuilt only when
\* it is full.  The dict of the pool starts empty with room for five
\* entries, and a key is inserted at most once per handle constructed
\* (MaxHandles, fewer than six): no rebuild happens here.
Hole == [key |-> NoOrigin, value |-> {}]

\* The indices of the entries in use.
Live(conns) == {i \in 1..Len(conns) : conns[i] # Hole}

\* The keys of self._connections.
Keys(conns) == {conns[i].key : i \in Live(conns)}

\* len(self._connections)
dict_len(conns) == Cardinality(Live(conns))

\* The index of the entry of the key o (0 if it is not a key).
dict_index(conns, o) ==
    IF o \in Keys(conns) THEN CHOOSE i \in Live(conns) : conns[i].key = o ELSE 0

\* self._connections.get(origin, set())
dict_get(conns, o) == IF o \in Keys(conns) THEN conns[dict_index(conns, o)].value ELSE {}

\* self._connections.setdefault(origin, set())
dict_setdefault(conns, o) ==
    IF o \in Keys(conns) THEN conns ELSE Append(conns, [key |-> o, value |-> {}])

\* self._connections[origin].add(connection)
dict_add(conns, c, o) == [conns EXCEPT ![dict_index(conns, o)].value = @ \cup {c}]

\* self._connections[origin].remove(connection)
dict_remove(conns, c, o) == [conns EXCEPT ![dict_index(conns, o)].value = @ \ {c}]

\* del self._connections[origin]
dict_del(conns, o) == [conns EXCEPT ![dict_index(conns, o)] = Hole]

\* ------------------------------------------------------------ pool helpers
\* self._connections_for_origin(origin): a copy of the origin's set.
connections_for_origin(conns, origin) == dict_get(conns, origin)

\* The handles held in self._connections, over all its keys.
Pooled(conns) == UNION {conns[i].value : i \in 1..Len(conns)}

\* _remove_from_pool(connection), its test: is the handle a member of its
\* origin's set?
remove_from_pool_finds(conns, c, origin) == c \in dict_get(conns, origin)

\* ---------------------------------------------------------------- locals
\* path: which method runs: a request ("pool", "forward", "tunnel"),
\* close() ("close") or get_connection_info() ("info").
\* todo: the elements the running for-loop has yet to visit (while
\* _get_all_connections runs: the set it has put together so far);
\* iter_size, iter_len, iter_pos: the running iterator over the dict: the
\* size the dict had when it was made, how many entries it has still to
\* yield, and the index of the entry it yielded last; entry: the index of
\* the entry whose set `connection_set` refers to; set_size, set_made,
\* set_seen: the running iterator over that set (get_connection_info): the
\* size the set had when it was made, the elements it had then, and the
\* elements yielded so far; current: the loop variable
\* `connection`; removing: the line the running _remove_from_pool has come
\* to; semaphore, lock: the semaphore _add_to_pool and the lock request()
\* got from their properties.
\* reused, removal: what the last scan and the last _remove_from_pool of the
\* running call did; undisturbed: no request() has run since the running
\* close() started; callbacks: how often the body stream in hand has called
\* _response_closed (these four are read by the properties only).
\* stream_error: the underlying stream's close raised, to be re-raised.
\* invalid: the error request() owes a URL that fails its preconditions
\* (read by the properties only).
\* proxy_connection, proxy_status: the auxiliary handle of _tunnel_request and
\* the class of the CONNECT response's status; drained, tls: the CONNECT
\* body was read to its end, start_tls returned (read by the properties only).
\* in_thread_lock: the thread is inside a `with self._thread_lock` block.
NoLocals ==
    [origin |-> NoOrigin, timeout |-> None, path |-> Nil, connection |-> None,
     connections_to_close |-> {}, seen_http11 |-> FALSE,
     pending_connection |-> None, reuse_connection |-> None, now |-> 0,
     todo |-> {}, iter_size |-> None, iter_len |-> 0, iter_pos |-> 0,
     entry |-> None, set_size |-> None, set_made |-> {}, set_seen |-> {},
     current |-> None, removing |-> Nil,
     semaphore |-> None, lock |-> None,
     reused |-> FALSE, removal |-> Nil, undisturbed |-> FALSE, callbacks |-> 0,
     stream_error |-> FALSE, invalid |-> Nil,
     proxy_connection |-> None, proxy_status |-> Nil, drained |-> FALSE,
     tls |-> FALSE, in_thread_lock |-> FALSE]

\* ---------------------------------------------------------------- config
\* The pool as its constructor leaves it, for the constructor arguments c:
\* no connection, no semaphore and no acquiry lock made yet.
InitState(c) ==
    /\ kind = c.kind
    /\ proxy_mode = c.proxy_mode
    /\ http2 = c.http2
    /\ max_connections = c.max_connections
    /\ max_keepalive_connections = c.max_keepalive_connections
    /\ keepalive_expiry = c.keepalive_expiry
    /\ sem_value = <<>>
    /\ connections = <<>>
    /\ acquiry_lock = <<>>
    /\ next_keepalive_check = 0
    /\ clock = 0
    /\ handles = [h \in Handles |-> UnbornHandle]
    /\ nhandles = 0
    /\ nrequests = 0
    /\ pc = [t \in Threads |-> "idle"]
    /\ loc = [t \in Threads |-> NoLocals]
    /\ outcome = [t \in Threads |-> Nil]

\* The semaphores some thread holds a reference to.
SemaphoreRefs == {loc[t].semaphore : t \in Threads} \ {None}

\* The acquiry locks some thread holds a reference to.
LockRefs == {loc[t].lock : t \in Threads} \ {None}

\* Thread t is inside a `with self._thread_lock` block.
HoldsThreadLock(t) == loc[t].in_thread_lock

\* No thread is inside such a block.
ThreadLockFree == \A t \in Threads : ~HoldsThreadLock(t)

\* Thread t can run a `with self._thread_lock` block: no other thread is
\* inside one.
ThreadLockOpen(t) == \A u \in Threads \ {t} : ~HoldsThreadLock(u)

\* ----------------------------------------------- iterating self._connections
\* for ... in self._connections.values() (or .items()).  The iterator notes
\* the size of the dict when it is made and counts down the entries it has
\* still to yield.  Each next(), the last one included, raises
\* RuntimeError("dictionary changed size during iteration") if the dict has
\* another size now; else it looks for the next entry in use behind the one
\* it yielded last: with none left the loop is over; with one found although
\* the count is used up it raises RuntimeError("dictionary keys changed
\* during iteration").

\* The locals once the iterator is gone.
IterDone(l) == [l EXCEPT !.iter_size = None, !.iter_len = 0, !.iter_pos = 0, !.entry = None]

\* The entries in use behind the one the iterator yielded last.
IterRest(t) == {i \in Live(connections) : i > loc[t].iter_pos}

\* The entry next() comes upon.
IterFirst(t) == CHOOSE i \in IterRest(t) : \A k \in IterRest(t) : i <= k

\* next() is called: the iterator is made and no set it yielded waits for
\* its union.
IterAtNext(t) == loc[t].iter_size # None /\ loc[t].entry = None

\* next() raises.
IterRaises(t) ==
    /\ IterAtNext(t)
    /\ \/ dict_len(connections) # loc[t].iter_size
       \/ IterRest(t) # {} /\ loc[t].iter_len = 0

\* next() finds nothing left: the loop is over.
IterStops(t) ==
    /\ IterAtNext(t)
    /\ dict_len(connections) = loc[t].iter_size
    /\ IterRest(t) = {}

\* next() yields an entry.
IterYields(t) ==
    /\ IterAtNext(t)
    /\ dict_len(connections) = loc[t].iter_size
    /\ IterRest(t) # {}
    /\ loc[t].iter_len > 0

\* iter(): the iterator is made.
Iter_Make(t) ==
    /\ loc[t].iter_size = None
    /\ loc' = [loc EXCEPT ![t].iter_size = dict_len(connections),
                          ![t].iter_len = dict_len(connections),
                          ![t].iter_pos = 0]
    /\ UNCHANGED <<cfgvars, connections, sem_value, acquiry_lock, next_keepalive_check,
                   clock, handles, nhandles, nrequests, pc, outcome>>

\* next() raises: the RuntimeError leaves the running method and, with
\* nothing to catch it, the public method that called it.
Iter_Raise(t) ==
    /\ IterRaises(t)
    /\ loc' = [loc EXCEPT ![t] = [IterDone(@) EXCEPT !.todo = {}]]
    /\ outcome' = [outcome EXCEPT ![t] = "RuntimeError"]
    /\ pc' = [pc EXCEPT ![t] = "done"]
    /\ UNCHANGED <<cfgvars, connections, sem_value, acquiry_lock, next_keepalive_check,
                   clock, handles, nhandles, nrequests>>

\* next() yields the entry it comes upon: connection_set refers to its set.
Iter_Visit(t) ==
    /\ IterYields(t)
    /\ loc' = [loc EXCEPT ![t].entry = IterFirst(t),
                          ![t].iter_pos = IterFirst(t),
                          ![t].iter_len = @ - 1]
    /\ UNCHANGED <<cfgvars, connections, sem_value, acquiry_lock, next_keepalive_check,
                   clock, handles, nhandles, nrequests, pc, outcome>>

\* A union that adds nothing for the entry it is given.
IterYield_nothing(conns, i) == {}

\* What the set of the entry i holds when it is read: the set is the one the
\* entry had when it was yielded, emptied before its key was deleted.
IterYield(conns, i) == conns[i].value

\* connections |= connection_set
Iter_Union(t) ==
    /\ loc[t].entry # None
    /\ loc' = [loc EXCEPT ![t].todo = @ \cup IterYield(connections, loc[t].entry),
                          ![t].entry = None]
    /\ UNCHANGED <<cfgvars, connections, sem_value, acquiry_lock, next_keepalive_check,
                   clock, handles, nhandles, nrequests, pc, outcome>>

\* self._get_all_connections() up to the end of its loop, one line at a time.
Iter_Collect(t) == Iter_Make(t) \/ Iter_Raise(t) \/ Iter_Visit(t) \/ Iter_Union(t)

\* ------------------------------------------------------- request(): entry
\* SyncHTTPProxy.request dispatch: forward or tunnel.
ProxyPath(url) ==
    IF (proxy_mode = "DEFAULT" /\ url.scheme = "http") \/ proxy_mode = "FORWARD_ONLY"
    THEN "forward"
    ELSE "tunnel"

RequestPath(url) == IF kind = "pool" THEN "pool" ELSE ProxyPath(url)

\* The origin whose bucket the request scans and inserts into.
RequestOrigin(url) == IF RequestPath(url) = "forward" THEN ProxyOrigin ELSE url_to_origin(url)

\* The first guard of _keepalive_sweep(): it returns at once when no expiry
\* is configured; else it reads the clock.
SweepReadsClock == keepalive_expiry # None

\* The second guard: it returns when the next check is not due at time now.
SweepDue(now) == ~(now < next_keepalive_check)

\* ext["timeout"]["pool"]: absent or a time.  A NullSemaphore never reads it.
PoolTimeouts == IF max_connections = None THEN {None} ELSE {None, 1}

\* A caller enters request(): the locals are set up and _keepalive_sweep()
\* is called, which reads the clock if an expiry is configured.
Request(t) ==
    /\ pc[t] = "idle"
    /\ nrequests < MaxRequests
    /\ \E url \in Urls, timeout \in PoolTimeouts :
        loc' = [u \in Threads |->
                  IF u = t
                  THEN [NoLocals EXCEPT !.origin = RequestOrigin(url),
                                        !.timeout = timeout,
                                        !.path = RequestPath(url),
                                        !.now = IF SweepReadsClock THEN clock ELSE 0]
                  ELSE [loc[u] EXCEPT !.undisturbed = FALSE]]
    /\ nrequests' = nrequests + 1
    /\ pc' = [pc EXCEPT ![t] = IF SweepReadsClock THEN "sweep_check" ELSE "acquire"]
    /\ outcome' = [outcome EXCEPT ![t] = Nil]
    /\ UNCHANGED <<cfgvars, connections, sem_value, acquiry_lock, next_keepalive_check,
                   clock, handles, nhandles>>

\* ------------------------------------------------------ _keepalive_sweep()
\* Where the caller of _keepalive_sweep() goes on: request() to its loop,
\* get_connection_info() to its own walk over the dictionary.
AfterSweep(t) == IF loc[t].path = "info" THEN "info_iter" ELSE "acquire"

\* Where the sweep goes on with the locals l: the next handle of the
\* snapshot, else the closes, else the return.
SweepLoopPc(t, l) ==
    IF l.todo # {} THEN "sweep_loop"
    ELSE IF l.connections_to_close # {} THEN "sweep_close"
    ELSE AfterSweep(t)

\* The locals for that: the second loop runs over connections_to_close.
SweepLoopLocals(l) ==
    IF l.todo # {} THEN [l EXCEPT !.current = None]
    ELSE [l EXCEPT !.current = None,
                   !.todo = l.connections_to_close,
                   !.now = IF l.connections_to_close = {} THEN 0 ELSE @]

\* if now < self._next_keepalive_check: return
KeepaliveSweep_Check(t) ==
    /\ pc[t] = "sweep_check"
    /\ pc' = [pc EXCEPT ![t] = IF SweepDue(loc[t].now) THEN "sweep" ELSE AfterSweep(t)]
    /\ loc' = [loc EXCEPT ![t].now = IF SweepDue(loc[t].now) THEN @ ELSE 0]
    /\ UNCHANGED <<cfgvars, connections, sem_value, acquiry_lock, next_keepalive_check,
                   clock, handles, nhandles, nrequests, outcome>>

\* self._next_keepalive_check = now + min(1.0, self._keepalive_expiry)
KeepaliveSweep_Schedule(t) ==
    /\ pc[t] = "sweep"
    /\ next_keepalive_check' = loc[t].now + Min(OneSecond, keepalive_expiry)
    /\ pc' = [pc EXCEPT ![t] = "sweep_iter"]
    /\ UNCHANGED <<cfgvars, connections, sem_value, acquiry_lock, clock, handles,
                   nhandles, nrequests, loc, outcome>>

\* self._get_all_connections(), and its return to the loop over the snapshot.
KeepaliveSweep_Collect(t) ==
    /\ pc[t] = "sweep_iter"
    /\ \/ Iter_Collect(t)
       \/ /\ IterStops(t)
          /\ loc' = [loc EXCEPT ![t] = SweepLoopLocals(IterDone(@))]
          /\ pc' = [pc EXCEPT ![t] = SweepLoopPc(t, IterDone(loc[t]))]
          /\ UNCHANGED <<cfgvars, connections, sem_value, acquiry_lock,
                         next_keepalive_check, clock, handles, nhandles, nrequests,
                         outcome>>

\* The loop goes on to its next iteration, or past its end, with nothing
\* done to the handle it looked at.
SweepSkips(t, l) ==
    /\ loc' = [loc EXCEPT ![t] = SweepLoopLocals(l)]
    /\ pc' = [pc EXCEPT ![t] = SweepLoopPc(t, l)]

\* The next handle of the snapshot: connection.state == ConnectionState.IDLE
KeepaliveSweep_State(t) ==
    /\ pc[t] = "sweep_loop"
    /\ \E c \in loc[t].todo :
        LET l == [loc[t] EXCEPT !.todo = @ \ {c}, !.current = c]
        IN  IF handles[c].state = IDLE
            THEN /\ loc' = [loc EXCEPT ![t] = l]
                 /\ pc' = [pc EXCEPT ![t] = "sweep_expiry"]
            ELSE SweepSkips(t, l)
    /\ UNCHANGED <<cfgvars, connections, sem_value, acquiry_lock, next_keepalive_check,
                   clock, handles, nhandles, nrequests, outcome>>

\* and connection.expires_at is not None
KeepaliveSweep_Expiry(t) ==
    /\ pc[t] = "sweep_expiry"
    /\ IF handles[loc[t].current].expires_at # None
       THEN /\ pc' = [pc EXCEPT ![t] = "sweep_due"]
            /\ loc' = loc
       ELSE SweepSkips(t, loc[t])
    /\ UNCHANGED <<cfgvars, connections, sem_value, acquiry_lock, next_keepalive_check,
                   clock, handles, nhandles, nrequests, outcome>>

\* Is a handle whose expiry is at the time expires_at due at the time now?
SweepExpired(expires_at, now) == now >= expires_at

\* and now >= connection.expires_at: the comparison raises TypeError if the
\* expiry has been cleared since the line before; an expired handle is set
\* aside, its removal comes next.
KeepaliveSweep_Due(t) ==
    /\ pc[t] = "sweep_due"
    /\ LET c == loc[t].current
       IN  IF handles[c].expires_at = None
           THEN /\ loc' = [loc EXCEPT ![t].todo = {}, ![t].current = None, ![t].now = 0,
                                      ![t].connections_to_close = {}]
                /\ pc' = [pc EXCEPT ![t] = "done"]
                /\ outcome' = [outcome EXCEPT ![t] = "TypeError"]
           ELSE /\ outcome' = outcome
                /\ IF SweepExpired(handles[c].expires_at, loc[t].now)
                   THEN /\ loc' = [loc EXCEPT ![t].connections_to_close = @ \cup {c}]
                        /\ pc' = [pc EXCEPT ![t] = "sweep_remove"]
                   ELSE SweepSkips(t, loc[t])
    /\ UNCHANGED <<cfgvars, connections, sem_value, acquiry_lock, next_keepalive_check,
                   clock, handles, nhandles, nrequests>>

\* for connection in connections_to_close: connection.close(), one at a time.
KeepaliveSweep_Close(t) ==
    /\ pc[t] = "sweep_close"
    /\ \E c \in loc[t].todo :
        /\ handles' = [handles EXCEPT ![c] = close_handle(@)]
        /\ loc' = [loc EXCEPT
                     ![t].todo = @ \ {c},
                     ![t].connections_to_close = IF loc[t].todo = {c} THEN {} ELSE @,
                     ![t].now = IF loc[t].todo = {c} THEN 0 ELSE @]
        /\ pc' = [pc EXCEPT ![t] = IF loc[t].todo = {c} THEN AfterSweep(t) ELSE "sweep_close"]
    /\ UNCHANGED <<cfgvars, connections, sem_value, acquiry_lock, next_keepalive_check,
                   clock, nhandles, nrequests, outcome>>

\* ---------------------------------------------- _get_connection_from_pool()
\* The handle the scan returns, from what the loop left behind.
ScanResult(reuse, pending, seen) ==
    IF reuse # None THEN reuse
    ELSE IF http2 /\ pending # None /\ ~seen THEN pending
    ELSE None

\* Where the scan goes on with todo left of its snapshot: the next handle,
\* else what follows the loop.
ScanLoopPc(todo) == IF todo # {} THEN "scan_loop" ELSE "scan"

\* The scan is entered: its locals, and the copy it takes of the origin's set.
ScanStart(t) ==
    /\ loc' = [loc EXCEPT
                 ![t].connection = None,
                 ![t].reused = FALSE,
                 ![t].removal = Nil,
                 ![t].connections_to_close = {},
                 ![t].seen_http11 = FALSE,
                 ![t].reuse_connection = None,
                 ![t].pending_connection = None,
                 ![t].current = None,
                 ![t].todo = connections_for_origin(connections, loc[t].origin)]
    /\ pc' = [pc EXCEPT ![t] =
                 ScanLoopPc(connections_for_origin(connections, loc[t].origin))]

\* The loop goes on to its next iteration, or past its end.
ScanGoesOn(t, l) ==
    /\ loc' = [loc EXCEPT ![t] = [l EXCEPT !.current = None]]
    /\ pc' = [pc EXCEPT ![t] = ScanLoopPc(l.todo)]

\* The next handle of the snapshot: if connection.is_http11: seen_http11 = True
Scan_Next(t) ==
    /\ pc[t] = "scan_loop"
    /\ \E c \in loc[t].todo :
        loc' = [loc EXCEPT ![t].todo = @ \ {c},
                           ![t].current = c,
                           ![t].seen_http11 = @ \/ is_http11(handles[c])]
    /\ pc' = [pc EXCEPT ![t] = "scan_state"]
    /\ UNCHANGED <<cfgvars, connections, sem_value, acquiry_lock, next_keepalive_check,
                   clock, handles, nhandles, nrequests, outcome>>

\* if connection.state == ConnectionState.IDLE
ScanIdle(h) == h.state = IDLE

Scan_State(t) ==
    /\ pc[t] = "scan_state"
    /\ pc' = [pc EXCEPT ![t] = IF ScanIdle(handles[loc[t].current])
                               THEN "scan_readable" ELSE "scan_active"]
    /\ UNCHANGED <<cfgvars, connections, sem_value, acquiry_lock, next_keepalive_check,
                   clock, handles, nhandles, nrequests, loc, outcome>>

\* A test that drops no handle.
ScanDrops_never(readable) == FALSE

\* if connection.is_socket_readable(): the handle is dropped.
ScanDrops(readable) == readable

\* The socket of the handle found IDLE is asked: a dead handle is set aside,
\* its removal comes next; a live one is the reuse candidate.
Scan_Readable(t) ==
    /\ pc[t] = "scan_readable"
    /\ \E readable \in is_socket_readable(handles[loc[t].current]) :
        IF ScanDrops(readable)
        THEN /\ loc' = [loc EXCEPT ![t].connections_to_close = @ \cup {loc[t].current}]
             /\ pc' = [pc EXCEPT ![t] = "scan_remove"]
        ELSE ScanGoesOn(t, [loc[t] EXCEPT !.reuse_connection = loc[t].current])
    /\ UNCHANGED <<cfgvars, connections, sem_value, acquiry_lock, next_keepalive_check,
                   clock, handles, nhandles, nrequests, outcome>>

\* elif connection.state == ConnectionState.ACTIVE and connection.is_http2
ScanActive(h) == h.state = ACTIVE /\ is_http2(h)

Scan_Active(t) ==
    /\ pc[t] = "scan_active"
    /\ IF ScanActive(handles[loc[t].current])
       THEN ScanGoesOn(t, [loc[t] EXCEPT !.reuse_connection = loc[t].current])
       ELSE /\ pc' = [pc EXCEPT ![t] = "scan_pending"]
            /\ loc' = loc
    /\ UNCHANGED <<cfgvars, connections, sem_value, acquiry_lock, next_keepalive_check,
                   clock, handles, nhandles, nrequests, outcome>>

\* elif connection.state == ConnectionState.PENDING
ScanPending(h) == h.state = PENDING

Scan_Pending(t) ==
    /\ pc[t] = "scan_pending"
    /\ ScanGoesOn(t, [loc[t] EXCEPT !.pending_connection =
                         IF ScanPending(handles[loc[t].current]) THEN loc[t].current ELSE @])
    /\ UNCHANGED <<cfgvars, connections, sem_value, acquiry_lock, next_keepalive_check,
                   clock, handles, nhandles, nrequests, outcome>>

\* The scan has its result: the closes of the dropped handles follow, then
\* the return.
ScanEnds(t, l) ==
    /\ loc' = [loc EXCEPT ![t] =
                 [l EXCEPT !.connection = ScanResult(l.reuse_connection,
                                                     l.pending_connection, l.seen_http11),
                           !.reused = l.reuse_connection # None,
                           !.todo = l.connections_to_close]]
    /\ pc' = [pc EXCEPT ![t] = IF l.connections_to_close # {} THEN "scan_close" ELSE "scanned"]

\* After the loop: a reuse candidate is marked READY
\* (reuse_connection.mark_as_ready()); with none the result is chosen.
Scan_Finish(t) ==
    /\ pc[t] = "scan"
    /\ IF loc[t].reuse_connection # None
       THEN /\ handles' = [handles EXCEPT ![loc[t].reuse_connection] = mark_as_ready(@)]
            /\ pc' = [pc EXCEPT ![t] = "scan_expiry"]
            /\ loc' = loc
       ELSE /\ handles' = handles
            /\ ScanEnds(t, loc[t])
    /\ UNCHANGED <<cfgvars, connections, sem_value, acquiry_lock, next_keepalive_check,
                   clock, nhandles, nrequests, outcome>>

\* reuse_connection.expires_at = None
Scan_Expiry(t) ==
    /\ pc[t] = "scan_expiry"
    /\ handles' = [handles EXCEPT ![loc[t].reuse_connection].expires_at = None]
    /\ ScanEnds(t, loc[t])
    /\ UNCHANGED <<cfgvars, connections, sem_value, acquiry_lock, next_keepalive_check,
                   clock, nhandles, nrequests, outcome>>

\* for connection in connections_to_close: connection.close(), one at a time;
\* after the last one the scan returns.
Scan_Close(t) ==
    /\ pc[t] = "scan_close"
    /\ \E c \in loc[t].todo :
        /\ handles' = [handles EXCEPT ![c] = close_handle(@)]
        /\ loc' = [loc EXCEPT ![t].todo = @ \ {c}]
        /\ pc' = [pc EXCEPT ![t] = IF loc[t].todo = {c} THEN "scanned" ELSE "scan_close"]
    /\ UNCHANGED <<cfgvars, connections, sem_value, acquiry_lock, next_keepalive_check,
                   clock, nhandles, nrequests, outcome>>

\* The locals once the scan has returned: only its result is kept.
ScanReturned(t, connection) ==
    [loc[t] EXCEPT !.connection = connection,
                   !.connections_to_close = {},
                   !.seen_http11 = FALSE,
                   !.pending_connection = None,
                   !.reuse_connection = None]

\* -------------------------------------- SyncConnectionPool.request(): loop
\* self._connection_acquiry_lock is read: with a lock made already the
\* property returns it, else it goes on to make one.
Pool_Lock(t) ==
    /\ pc[t] = "acquire"
    /\ loc[t].path = "pool"
    /\ IF lock_exists(acquiry_lock)
       THEN /\ loc' = [loc EXCEPT ![t].lock = lock_current(acquiry_lock)]
            /\ pc' = [pc EXCEPT ![t] = "lock_enter"]
       ELSE /\ loc' = loc
            /\ pc' = [pc EXCEPT ![t] = "lock_create"]
    /\ UNCHANGED <<cfgvars, connections, sem_value, acquiry_lock, next_keepalive_check,
                   clock, handles, nhandles, nrequests, outcome>>

\* self._internal_connection_acquiry_lock = self._backend.create_lock()
Lock_Create(t) ==
    /\ pc[t] = "lock_create"
    /\ acquiry_lock' = lock_create(acquiry_lock, LockRefs)
    /\ pc' = [pc EXCEPT ![t] = "lock_return"]
    /\ UNCHANGED <<cfgvars, connections, sem_value, next_keepalive_check, clock,
                   handles, nhandles, nrequests, loc, outcome>>

\* return self._internal_connection_acquiry_lock
Lock_Return(t) ==
    /\ pc[t] = "lock_return"
    /\ loc' = [loc EXCEPT ![t].lock = lock_current(acquiry_lock)]
    /\ pc' = [pc EXCEPT ![t] = "lock_enter"]
    /\ UNCHANGED <<cfgvars, connections, sem_value, acquiry_lock, next_keepalive_check,
                   clock, handles, nhandles, nrequests, outcome>>

\* with <the lock the property returned>: it is entered once it is free.
Pool_Acquire(t) ==
    /\ pc[t] = "lock_enter"
    /\ lock_free(acquiry_lock, loc[t].lock)
    /\ acquiry_lock' = lock_enter(acquiry_lock, loc[t].lock, t)
    /\ pc' = [pc EXCEPT ![t] = "scan_start"]
    /\ UNCHANGED <<cfgvars, connections, sem_value, next_keepalive_check, clock,
                   handles, nhandles, nrequests, loc, outcome>>

\* connection = self._get_connection_from_pool(origin), under the lock.
Pool_Scan(t) ==
    /\ pc[t] = "scan_start"
    /\ ScanStart(t)
    /\ UNCHANGED <<cfgvars, connections, sem_value, acquiry_lock, next_keepalive_check,
                   clock, handles, nhandles, nrequests, outcome>>

\* Thread t leaves a lock that the attribute no longer holds and that no
\* other thread refers to: the lock is gone with that.
LockDrops(t) ==
    /\ Len(acquiry_lock) > 1
    /\ acquiry_lock[1] = t
    /\ \A u \in Threads \ {t} : loc[u].lock # 1

\* Leaving the with-block of request(): only the base pool holds a lock.
Unlocked(t) ==
    LET freed == [i \in 1..Len(acquiry_lock) |->
                    IF acquiry_lock[i] = t THEN NoThread ELSE acquiry_lock[i]]
    IN  IF LockDrops(t) THEN Tail(freed) ELSE freed

\* The locals of all threads once t, with the locals l, has left the
\* with-block: t has no lock in hand, and where a lock is gone the others
\* are counted anew.
UnlockedLocals(t, l) ==
    [u \in Threads |->
        IF u = t THEN [l EXCEPT !.lock = None]
        ELSE IF LockDrops(t) /\ loc[u].lock # None
             THEN [loc[u] EXCEPT !.lock = @ - 1]
             ELSE loc[u]]

\* The scan found a handle: the with-block is left and the request goes out.
Pool_Reuse(t) ==
    /\ pc[t] = "scanned"
    /\ loc[t].path = "pool"
    /\ loc[t].connection # None
    /\ acquiry_lock' = Unlocked(t)
    /\ loc' = UnlockedLocals(t, ScanReturned(t, loc[t].connection))
    /\ pc' = [pc EXCEPT ![t] = "request"]
    /\ UNCHANGED <<cfgvars, connections, sem_value, next_keepalive_check, clock,
                   handles, nhandles, nrequests, outcome>>

\* _add_to_pool is entered and reads self._connection_semaphore: with no
\* semaphore made yet (and a limit to make one for) the property goes on to
\* make one, else it returns the one the attribute holds.
AddEntryPc == IF max_connections # None /\ ~sem_exists(sem_value) THEN "sem_create" ELSE "add"

\* The semaphore the property returns when it has one.
AddEntrySemaphore ==
    IF max_connections # None /\ sem_exists(sem_value) THEN sem_current(sem_value) ELSE None

\* The scan found nothing: _create_connection(origin) and the entry of
\* _add_to_pool, still under the lock.
Pool_Create(t) ==
    /\ pc[t] = "scanned"
    /\ loc[t].path = "pool"
    /\ loc[t].connection = None
    /\ nhandles < MaxHandles
    /\ nhandles' = nhandles + 1
    /\ handles' = [handles EXCEPT ![nhandles + 1] = NewHandle(loc[t].origin)]
    /\ loc' = [loc EXCEPT ![t] = [ScanReturned(t, nhandles + 1) EXCEPT
                                     !.semaphore = AddEntrySemaphore]]
    /\ pc' = [pc EXCEPT ![t] = AddEntryPc]
    /\ UNCHANGED <<cfgvars, connections, sem_value, acquiry_lock, next_keepalive_check,
                   clock, nrequests, outcome>>

\* _add_to_pool has returned, or raised, inside the with-block of request():
\* the block is left; the request goes out, or the exception goes on to the
\* caller.
Pool_Unlock(t) ==
    /\ pc[t] = "lock_exit"
    /\ acquiry_lock' = Unlocked(t)
    /\ loc' = UnlockedLocals(t, loc[t])
    /\ pc' = [pc EXCEPT ![t] = IF outcome[t] = Nil THEN "request" ELSE "done"]
    /\ UNCHANGED <<cfgvars, connections, sem_value, next_keepalive_check, clock,
                   handles, nhandles, nrequests, outcome>>

\* ------------------------------------------------------------ _add_to_pool()
\* self._internal_semaphore = self._backend.create_semaphore(...)
Semaphore_Create(t) ==
    /\ pc[t] = "sem_create"
    /\ sem_value' = sem_create(sem_value, SemaphoreRefs)
    /\ pc' = [pc EXCEPT ![t] = "sem_return"]
    /\ UNCHANGED <<cfgvars, connections, acquiry_lock, next_keepalive_check, clock,
                   handles, nhandles, nrequests, loc, outcome>>

\* return self._internal_semaphore
Semaphore_Return(t) ==
    /\ pc[t] = "sem_return"
    /\ loc' = [loc EXCEPT ![t].semaphore = sem_current(sem_value)]
    /\ pc' = [pc EXCEPT ![t] = "add"]
    /\ UNCHANGED <<cfgvars, connections, sem_value, acquiry_lock, next_keepalive_check,
                   clock, handles, nhandles, nrequests, outcome>>

\* semaphore.acquire(timeout) got a permit: the reference to the semaphore,
\* a temporary of that line, is gone.
AddToPool_Acquire(t) ==
    /\ pc[t] = "add"
    /\ sem_can_acquire(sem_value, loc[t].semaphore)
    /\ sem_value' = sem_acquire(sem_value, loc[t].semaphore)
    /\ loc' = [loc EXCEPT ![t].semaphore = None]
    /\ pc' = [pc EXCEPT ![t] = "add_insert"]
    /\ UNCHANGED <<cfgvars, connections, acquiry_lock, next_keepalive_check, clock,
                   handles, nhandles, nrequests, outcome>>

\* Where the caller of _add_to_pool goes on: request() of the base pool to
\* the end of its with-block; the proxy paths, which hold no lock, to p.
AfterAdd(t, p) == IF loc[t].path = "pool" THEN "lock_exit" ELSE p

\* semaphore.acquire(timeout) ran out of time with no permit free: PoolTimeout
\* leaves _add_to_pool.
AddToPool_Timeout(t) ==
    /\ pc[t] = "add"
    /\ ~sem_can_acquire(sem_value, loc[t].semaphore)
    /\ loc[t].timeout # None
    /\ loc' = [loc EXCEPT ![t].semaphore = None]
    /\ outcome' = [outcome EXCEPT ![t] = "PoolTimeout"]
    /\ pc' = [pc EXCEPT ![t] = AfterAdd(t, "done")]
    /\ UNCHANGED <<cfgvars, connections, sem_value, acquiry_lock, next_keepalive_check,
                   clock, handles, nhandles, nrequests>>

\* with self._thread_lock: self._connections.setdefault(connection.origin, set())
AddToPool_SetDefault(t) ==
    /\ pc[t] = "add_insert"
    /\ ThreadLockOpen(t)
    /\ connections' = dict_setdefault(connections, handles[loc[t].connection].origin)
    /\ loc' = [loc EXCEPT ![t].in_thread_lock = TRUE]
    /\ pc' = [pc EXCEPT ![t] = "add_member"]
    /\ UNCHANGED <<cfgvars, sem_value, acquiry_lock, next_keepalive_check, clock,
                   handles, nhandles, nrequests, outcome>>

\* self._connections[connection.origin].add(connection), and the thread lock
\* is left.
AddToPool_Add(t) ==
    /\ pc[t] = "add_member"
    /\ connections' = dict_add(connections, loc[t].connection,
                               handles[loc[t].connection].origin)
    /\ loc' = [loc EXCEPT ![t].in_thread_lock = FALSE]
    /\ pc' = [pc EXCEPT ![t] = AfterAdd(t, "request")]
    /\ UNCHANGED <<cfgvars, sem_value, acquiry_lock, next_keepalive_check, clock,
                   handles, nhandles, nrequests, outcome>>

\* ------------------------------------------------------ connection.request()
\* The call into the handle returned a response.  On the base pool the loop
\* ends and the body is wrapped; the proxy paths wrap it the same way.
Request_Response(t) ==
    /\ pc[t] = "request"
    /\ AcceptsRequest(handles[loc[t].connection])
    /\ \E proto \in Protocols :
        handles' = [handles EXCEPT ![loc[t].connection] = AfterRequest(@, proto)]
    /\ outcome' = [outcome EXCEPT ![t] = "response"]
    /\ pc' = [pc EXCEPT ![t] = "done"]
    /\ UNCHANGED <<cfgvars, connections, sem_value, acquiry_lock, next_keepalive_check,
                   clock, nhandles, nrequests, loc>>

\* Where an exception other than NewConnectionRequired goes: the base pool
\* catches it to remove the handle; the proxy paths have no handler.
OnRequestError(path) == IF path = "pool" THEN "failed" ELSE "done"

\* The call into the handle failed for good (the connect failed, the socket
\* broke): the handle reports CLOSED from now on.
Request_Error(t) ==
    /\ pc[t] = "request"
    /\ AcceptsRequest(handles[loc[t].connection])
    /\ handles' = [handles EXCEPT ![loc[t].connection] = close_handle(@)]
    /\ pc' = [pc EXCEPT ![t] = OnRequestError(loc[t].path)]
    /\ outcome' = [outcome EXCEPT ![t] = IF OnRequestError(loc[t].path) = "done"
                                         THEN "error" ELSE @]
    /\ UNCHANGED <<cfgvars, connections, sem_value, acquiry_lock, next_keepalive_check,
                   clock, nhandles, nrequests, loc>>

\* Where NewConnectionRequired goes: the base pool loops, the proxy paths
\* have no handler.
OnNewConnectionRequired(path) == IF path = "pool" THEN "acquire" ELSE "done"

\* The handle cannot take the request and raises NewConnectionRequired.
Request_NewConnectionRequired(t) ==
    /\ pc[t] = "request"
    /\ ~AcceptsRequest(handles[loc[t].connection])
    /\ pc' = [pc EXCEPT ![t] = OnNewConnectionRequired(loc[t].path)]
    /\ IF OnNewConnectionRequired(loc[t].path) = "done"
       THEN /\ outcome' = [outcome EXCEPT ![t] = "NewConnectionRequired"]
            /\ loc' = loc
       ELSE /\ outcome' = outcome
            /\ loc' = [loc EXCEPT ![t].connection = None, ![t].reused = FALSE]
    /\ UNCHANGED <<cfgvars, connections, sem_value, acquiry_lock, next_keepalive_check,
                   clock, handles, nhandles, nrequests>>

\* The call is over.  After a response the caller holds the body stream,
\* which remembers the handle; otherwise nothing is left.
Return(t) ==
    /\ pc[t] = "done"
    /\ IF outcome[t] = "response"
       THEN /\ pc' = [pc EXCEPT ![t] = "body"]
            /\ loc' = [loc EXCEPT ![t] = [NoLocals EXCEPT
                                            !.connection = loc[t].connection,
                                            !.reused = loc[t].reused]]
       ELSE /\ pc' = [pc EXCEPT ![t] = "idle"]
            /\ loc' = [loc EXCEPT ![t] = NoLocals]
    /\ outcome' = [outcome EXCEPT ![t] = Nil]
    /\ UNCHANGED <<cfgvars, connections, sem_value, acquiry_lock, next_keepalive_check,
                   clock, handles, nhandles, nrequests>>

\* ----------------------------------------------- ResponseByteStream.close()
\* self.stream.close(): the handle learns that its response is over.
Body_Close(t) ==
    /\ pc[t] = "body"
    /\ \E keep \in BOOLEAN :
        handles' = [handles EXCEPT ![loc[t].connection] = AfterStreamClosed(@, keep)]
    /\ loc' = [loc EXCEPT ![t].reused = FALSE, ![t].callbacks = @ + 1]
    /\ pc' = [pc EXCEPT ![t] = "response_closed"]
    /\ UNCHANGED <<cfgvars, connections, sem_value, acquiry_lock, next_keepalive_check,
                   clock, nhandles, nrequests, outcome>>

\* ------------------------------------------------------- _response_closed()
\* Does an IDLE handle go over the keep-alive cap, given the pooled count?
OverKeepaliveCap(num_connections) ==
    /\ max_keepalive_connections # None
    /\ num_connections > max_keepalive_connections

\* How ResponseByteStream.close() ends once the callback has returned: the
\* finally-block re-raises what the underlying stream's close raised.
BodyClosed(t) == IF loc[t].stream_error THEN "stream_error" ELSE "body_closed"

\* if connection.state == ConnectionState.CLOSED: remove_from_pool = True
ResponseClosed_Check(t) ==
    /\ pc[t] = "response_closed"
    /\ pc' = [pc EXCEPT ![t] = IF handles[loc[t].connection].state = CLOSED
                               THEN "rc_remove" ELSE "rc_idle"]
    /\ UNCHANGED <<cfgvars, connections, sem_value, acquiry_lock, next_keepalive_check,
                   clock, handles, nhandles, nrequests, loc, outcome>>

\* elif connection.state == ConnectionState.IDLE: the pool is counted; with
\* any other state _response_closed is over.
ResponseClosed_Idle(t) ==
    /\ pc[t] = "rc_idle"
    /\ IF handles[loc[t].connection].state = IDLE
       THEN /\ pc' = [pc EXCEPT ![t] = "rc_iter"]
            /\ outcome' = outcome
       ELSE /\ pc' = [pc EXCEPT ![t] = "done"]
            /\ outcome' = [outcome EXCEPT ![t] = BodyClosed(t)]
    /\ UNCHANGED <<cfgvars, connections, sem_value, acquiry_lock, next_keepalive_check,
                   clock, handles, nhandles, nrequests, loc>>

\* Where _response_closed goes on with the count: to the eviction, to the
\* stamp of the expiry, or to its end.
ResponseCountedPc(num_connections) ==
    IF OverKeepaliveCap(num_connections) THEN "rc_remove"
    ELSE IF keepalive_expiry # None THEN "rc_now"
    ELSE "done"

\* num_connections = len(self._get_all_connections()) and the decision on
\* the count.
ResponseClosed_Count(t) ==
    /\ pc[t] = "rc_iter"
    /\ \/ Iter_Collect(t)
       \/ /\ IterStops(t)
          /\ LET next == ResponseCountedPc(Cardinality(loc[t].todo))
             IN  /\ loc' = [loc EXCEPT ![t] =
                              [IterDone(@) EXCEPT
                                 !.todo = {},
                                 !.connections_to_close =
                                     IF next = "rc_remove" THEN {loc[t].connection} ELSE {}]]
                 /\ pc' = [pc EXCEPT ![t] = next]
                 /\ outcome' = [outcome EXCEPT ![t] =
                                  IF next = "done" THEN BodyClosed(t) ELSE @]
          /\ UNCHANGED <<cfgvars, connections, sem_value, acquiry_lock,
                         next_keepalive_check, clock, handles, nhandles, nrequests>>

\* now = self._backend.time()
ResponseClosed_Now(t) ==
    /\ pc[t] = "rc_now"
    /\ loc' = [loc EXCEPT ![t].now = clock]
    /\ pc' = [pc EXCEPT ![t] = "rc_stamp"]
    /\ UNCHANGED <<cfgvars, connections, sem_value, acquiry_lock, next_keepalive_check,
                   clock, handles, nhandles, nrequests, outcome>>

\* connection.expires_at = now + self._keepalive_expiry
ResponseClosed_Stamp(t) ==
    /\ pc[t] = "rc_stamp"
    /\ handles' = [handles EXCEPT ![loc[t].connection].expires_at =
                      loc[t].now + keepalive_expiry]
    /\ loc' = [loc EXCEPT ![t].now = 0]
    /\ pc' = [pc EXCEPT ![t] = "done"]
    /\ outcome' = [outcome EXCEPT ![t] = BodyClosed(t)]
    /\ UNCHANGED <<cfgvars, connections, sem_value, acquiry_lock, next_keepalive_check,
                   clock, nhandles, nrequests>>

\* if close_connection: connection.close()
ResponseClosed_Close(t) ==
    /\ pc[t] = "rc_close"
    /\ handles' = [handles EXCEPT ![loc[t].connection] = close_handle(@)]
    /\ pc' = [pc EXCEPT ![t] = "done"]
    /\ outcome' = [outcome EXCEPT ![t] = BodyClosed(t)]
    /\ UNCHANGED <<cfgvars, connections, sem_value, acquiry_lock, next_keepalive_check,
                   clock, nhandles, nrequests, loc>>

\* ------------------------------------------------ SyncConnectionPool.close()
\* The thread is inside request().
InRequest(t) == loc[t].path \in {"pool", "forward", "tunnel"}

\* close() is called.
Close_Start(t) ==
    /\ pc[t] = "idle"
    /\ nrequests < MaxRequests
    /\ nrequests' = nrequests + 1
    /\ loc' = [loc EXCEPT ![t] = [NoLocals EXCEPT
                 !.path = "close",
                 !.undisturbed = \A u \in Threads \ {t} : ~InRequest(u)]]
    /\ pc' = [pc EXCEPT ![t] = "close_iter"]
    /\ outcome' = [outcome EXCEPT ![t] = Nil]
    /\ UNCHANGED <<cfgvars, connections, sem_value, acquiry_lock, next_keepalive_check,
                   clock, handles, nhandles>>

\* connections = self._get_all_connections(), and its return to the loop of
\* removals.
Close_Collect(t) ==
    /\ pc[t] = "close_iter"
    /\ \/ Iter_Collect(t)
       \/ /\ IterStops(t)
          /\ loc' = [loc EXCEPT ![t] = [IterDone(@) EXCEPT
                                          !.connections_to_close = loc[t].todo]]
          /\ pc' = [pc EXCEPT ![t] = IF loc[t].todo = {} THEN "done" ELSE "close_remove"]
          /\ outcome' = [outcome EXCEPT ![t] = IF loc[t].todo = {} THEN "pool_closed" ELSE @]
          /\ UNCHANGED <<cfgvars, connections, sem_value, acquiry_lock,
                         next_keepalive_check, clock, handles, nhandles, nrequests>>

\* for connection in connections: connection.close(), one at a time.
Close_Close(t) ==
    /\ pc[t] = "close"
    /\ \E c \in loc[t].todo :
        /\ handles' = [handles EXCEPT ![c] = close_handle(@)]
        /\ loc' = [loc EXCEPT ![t].todo = @ \ {c}]
        /\ pc' = [pc EXCEPT ![t] = IF loc[t].todo = {c} THEN "done" ELSE "close"]
        /\ outcome' = [outcome EXCEPT ![t] = IF loc[t].todo = {c} THEN "pool_closed" ELSE @]
    /\ UNCHANGED <<cfgvars, connections, sem_value, acquiry_lock, next_keepalive_check,
                   clock, nhandles, nrequests>>

\* --------------------------------------------------- get_connection_info()
\* get_connection_info() is called: _keepalive_sweep() is called, which
\* reads the clock if an expiry is configured.
Info_Start(t) ==
    /\ pc[t] = "idle"
    /\ nrequests < MaxRequests
    /\ nrequests' = nrequests + 1
    /\ loc' = [loc EXCEPT ![t] = [NoLocals EXCEPT
                 !.path = "info",
                 !.now = IF SweepReadsClock THEN clock ELSE 0]]
    /\ pc' = [pc EXCEPT ![t] = IF SweepReadsClock THEN "sweep_check" ELSE "info_iter"]
    /\ outcome' = [outcome EXCEPT ![t] = Nil]
    /\ UNCHANGED <<cfgvars, connections, sem_value, acquiry_lock, next_keepalive_check,
                   clock, handles, nhandles>>

\* for origin, connections in self._connections.items(): the iterator is
\* made, raises, or yields an entry, whose set the list comprehension of the
\* loop body then walks; with no entry left get_connection_info() returns.
Info_Next(t) ==
    /\ pc[t] = "info_iter"
    /\ \/ Iter_Make(t)
       \/ Iter_Raise(t)
       \/ Iter_Visit(t)
       \/ /\ IterStops(t)
          /\ loc' = [loc EXCEPT ![t] = [IterDone(@) EXCEPT !.todo = {}]]
          /\ pc' = [pc EXCEPT ![t] = "done"]
          /\ outcome' = [outcome EXCEPT ![t] = "info"]
          /\ UNCHANGED <<cfgvars, connections, sem_value, acquiry_lock,
                         next_keepalive_check, clock, handles, nhandles, nrequests>>

\* [connection.info() for connection in connections]: `connections` is the
\* set of the entry itself, not a copy.  The iterator over a set notes its
\* size when it is made; each next() raises RuntimeError("Set changed size
\* during iteration") if the set has another size now, else it yields the
\* next element of the table.  A set that lost one element and gained
\* another in between has its size again: the new element may lie behind
\* the iterator's position or before it, so that any element not yet
\* yielded can come next, or none.

\* iter(connections): the iterator over the set is made.
Info_SetIter(t) ==
    /\ pc[t] = "info_iter"
    /\ loc[t].entry # None
    /\ loc[t].set_size = None
    /\ LET set == IterYield(connections, loc[t].entry)
       IN  loc' = [loc EXCEPT ![t].set_size = Cardinality(set),
                              ![t].set_made = set,
                              ![t].set_seen = {}]
    /\ UNCHANGED <<cfgvars, connections, sem_value, acquiry_lock, next_keepalive_check,
                   clock, handles, nhandles, nrequests, pc, outcome>>

\* next() finds the size of the set changed: the RuntimeError leaves
\* get_connection_info().
Info_SetRaise(t) ==
    /\ pc[t] = "info_iter"
    /\ loc[t].set_size # None
    /\ Cardinality(IterYield(connections, loc[t].entry)) # loc[t].set_size
    /\ loc' = [loc EXCEPT ![t] = [IterDone(@) EXCEPT !.set_size = None,
                                                     !.set_made = {},
                                                     !.set_seen = {}]]
    /\ outcome' = [outcome EXCEPT ![t] = "RuntimeError"]
    /\ pc' = [pc EXCEPT ![t] = "done"]
    /\ UNCHANGED <<cfgvars, connections, sem_value, acquiry_lock, next_keepalive_check,
                   clock, handles, nhandles, nrequests>>

\* next() yields a handle not yet yielded and connection.info() is called
\* on it, which changes nothing.
Info_Info(t) ==
    /\ pc[t] = "info_iter"
    /\ loc[t].set_size # None
    /\ LET set == IterYield(connections, loc[t].entry)
       IN  /\ Cardinality(set) = loc[t].set_size
           /\ \E c \in set \ loc[t].set_seen :
                loc' = [loc EXCEPT ![t].set_seen = @ \cup {c}]
    /\ UNCHANGED <<cfgvars, connections, sem_value, acquiry_lock, next_keepalive_check,
                   clock, handles, nhandles, nrequests, pc, outcome>>

\* next() finds the table at its end, every element yielded, or the set
\* changed and at its old size again: the list is sorted and stored under
\* the origin's URL, and the loop over the dict goes on.
Info_SetStop(t) ==
    /\ pc[t] = "info_iter"
    /\ loc[t].set_size # None
    /\ LET set == IterYield(connections, loc[t].entry)
       IN  /\ Cardinality(set) = loc[t].set_size
           /\ set \ loc[t].set_seen = {} \/ set # loc[t].set_made
    /\ loc' = [loc EXCEPT ![t].set_size = None, ![t].set_made = {},
                          ![t].set_seen = {}, ![t].entry = None]
    /\ UNCHANGED <<cfgvars, connections, sem_value, acquiry_lock, next_keepalive_check,
                   clock, handles, nhandles, nrequests, pc, outcome>>

\* ----------------------------------------------------- _remove_from_pool()
\* Where _remove_from_pool is called: in the loops of the scan, of the sweep
\* and of close(), in the except clause of request(), in _response_closed.
RemoveFromPoolPcs == {"scan_remove", "sweep_remove", "close_remove", "failed", "rc_remove"}

\* The handles the call that thread t is about to make can be for: the loop
\* variable of the scan and of the sweep, any handle close() has still to
\* remove, the handle of the request or of the response.
RemovalTargets(t) ==
    IF pc[t] \in {"scan_remove", "sweep_remove"} THEN {loc[t].current}
    ELSE IF pc[t] = "close_remove" THEN loc[t].todo
    ELSE {loc[t].connection}

\* _remove_from_pool has returned to its caller, whose locals are l now:
\* where the caller goes on.
RemovalReturns(t, l) ==
    IF pc[t] = "scan_remove" THEN
        /\ ScanGoesOn(t, l)
        /\ outcome' = outcome
    ELSE IF pc[t] = "sweep_remove" THEN
        /\ SweepSkips(t, l)
        /\ outcome' = outcome
    ELSE IF pc[t] = "close_remove" THEN
        /\ loc' = [loc EXCEPT ![t] =
                     [l EXCEPT !.current = None,
                               !.todo = IF l.todo = {} THEN l.connections_to_close ELSE @]]
        /\ pc' = [pc EXCEPT ![t] = IF l.todo = {} THEN "close" ELSE "close_remove"]
        /\ outcome' = outcome
    ELSE IF pc[t] = "failed" THEN
        /\ loc' = [loc EXCEPT ![t] = [l EXCEPT !.current = None]]
        /\ pc' = [pc EXCEPT ![t] = "done"]
        /\ outcome' = [outcome EXCEPT ![t] = "error"]
    ELSE
        /\ loc' = [loc EXCEPT ![t] = [l EXCEPT !.current = None]]
        /\ pc' = [pc EXCEPT ![t] = IF l.connections_to_close # {} THEN "rc_close" ELSE "done"]
        /\ outcome' = [outcome EXCEPT ![t] =
                         IF l.connections_to_close # {} THEN @ ELSE BodyClosed(t)]

\* The locals when _remove_from_pool leaves the thread lock and returns.
RemovalLeaves(l) == [l EXCEPT !.removing = Nil, !.in_thread_lock = FALSE]

\* with self._thread_lock: if connection in self._connections.get(
\* connection.origin, set()); for an absent handle that is all.
RemoveFromPool_Test(t) ==
    /\ pc[t] \in RemoveFromPoolPcs
    /\ loc[t].removing = Nil
    /\ ThreadLockOpen(t)
    /\ \E c \in RemovalTargets(t) :
        LET found == remove_from_pool_finds(connections, c, handles[c].origin)
            l == [loc[t] EXCEPT
                    !.current = c,
                    !.todo = IF pc[t] = "close_remove" THEN @ \ {c} ELSE @,
                    !.removal = IF pc[t] \in {"failed", "rc_remove"}
                                THEN (IF found THEN "removed" ELSE "absent")
                                ELSE @]
        IN  IF found
            THEN /\ loc' = [loc EXCEPT ![t] = [l EXCEPT !.removing = "release",
                                                        !.in_thread_lock = TRUE]]
                 /\ UNCHANGED <<pc, outcome>>
            ELSE RemovalReturns(t, RemovalLeaves(l))
    /\ UNCHANGED <<cfgvars, connections, sem_value, acquiry_lock, next_keepalive_check,
                   clock, handles, nhandles, nrequests>>

\* self._connection_semaphore.release()
RemoveFromPool_Release(t) ==
    /\ loc[t].removing = "release"
    /\ sem_value' = sem_release(sem_value)
    /\ loc' = [loc EXCEPT ![t].removing = "remove"]
    /\ UNCHANGED <<cfgvars, connections, acquiry_lock, next_keepalive_check, clock,
                   handles, nhandles, nrequests, pc, outcome>>

\* self._connections[connection.origin].remove(connection); if the set is
\* not empty now, that is all.
RemoveFromPool_Remove(t) ==
    /\ loc[t].removing = "remove"
    /\ LET c == loc[t].current
           removed == dict_remove(connections, c, handles[c].origin)
       IN  /\ connections' = removed
           /\ IF dict_get(removed, handles[c].origin) = {}
              THEN /\ loc' = [loc EXCEPT ![t].removing = "del"]
                   /\ UNCHANGED <<pc, outcome>>
              ELSE RemovalReturns(t, RemovalLeaves(loc[t]))
    /\ UNCHANGED <<cfgvars, sem_value, acquiry_lock, next_keepalive_check, clock,
                   handles, nhandles, nrequests>>

\* del self._connections[connection.origin]
RemoveFromPool_Del(t) ==
    /\ loc[t].removing = "del"
    /\ connections' = dict_del(connections, handles[loc[t].current].origin)
    /\ RemovalReturns(t, RemovalLeaves(loc[t]))
    /\ UNCHANGED <<cfgvars, sem_value, acquiry_lock, next_keepalive_check, clock,
                   handles, nhandles, nrequests>>

\* ------------------------------------------ SyncHTTPProxy._forward_request()
\* connection = self._get_connection_from_pool(self.proxy_origin): no lock.
Forward_Scan(t) ==
    /\ pc[t] = "acquire"
    /\ loc[t].path = "forward"
    /\ ScanStart(t)
    /\ UNCHANGED <<cfgvars, connections, sem_value, acquiry_lock, next_keepalive_check,
                   clock, handles, nhandles, nrequests, outcome>>

Forward_Reuse(t) ==
    /\ pc[t] = "scanned"
    /\ loc[t].path = "forward"
    /\ loc[t].connection # None
    /\ loc' = [loc EXCEPT ![t] = ScanReturned(t, loc[t].connection)]
    /\ pc' = [pc EXCEPT ![t] = "request"]
    /\ UNCHANGED <<cfgvars, connections, sem_value, acquiry_lock, next_keepalive_check,
                   clock, handles, nhandles, nrequests, outcome>>

\* connection = SyncHTTPConnection(origin=self.proxy_origin, ...) and the
\* entry of _add_to_pool.
Forward_Create(t) ==
    /\ pc[t] = "scanned"
    /\ loc[t].path = "forward"
    /\ loc[t].connection = None
    /\ nhandles < MaxHandles
    /\ nhandles' = nhandles + 1
    /\ handles' = [handles EXCEPT ![nhandles + 1] = NewHandle(loc[t].origin)]
    /\ loc' = [loc EXCEPT ![t] = [ScanReturned(t, nhandles + 1) EXCEPT
                                     !.semaphore = AddEntrySemaphore]]
    /\ pc' = [pc EXCEPT ![t] = AddEntryPc]
    /\ UNCHANGED <<cfgvars, connections, sem_value, acquiry_lock, next_keepalive_check,
                   clock, nrequests, outcome>>

\* ------------------------------------------- SyncHTTPProxy._tunnel_request()
\* connection = self._get_connection_from_pool(origin): no lock.
Tunnel_Scan(t) ==
    /\ pc[t] = "acquire"
    /\ loc[t].path = "tunnel"
    /\ ScanStart(t)
    /\ UNCHANGED <<cfgvars, connections, sem_value, acquiry_lock, next_keepalive_check,
                   clock, handles, nhandles, nrequests, outcome>>

Tunnel_Reuse(t) ==
    /\ pc[t] = "scanned"
    /\ loc[t].path = "tunnel"
    /\ loc[t].connection # None
    /\ loc' = [loc EXCEPT ![t] = ScanReturned(t, loc[t].connection)]
    /\ pc' = [pc EXCEPT ![t] = "request"]
    /\ UNCHANGED <<cfgvars, connections, sem_value, acquiry_lock, next_keepalive_check,
                   clock, handles, nhandles, nrequests, outcome>>

\* The positions of the CONNECT handshake.
HandshakePcs == {"tunnel_connect", "tunnel_drain", "tunnel_status", "tunnel_tls"}

\* The except clause of the handshake, entered with the auxiliary handle left
\* open: ProxyError leaves _tunnel_request.
TunnelFails_aux_left_open(t) ==
    /\ outcome' = [outcome EXCEPT ![t] = "ProxyError"]
    /\ pc' = [pc EXCEPT ![t] = "done"]
    /\ UNCHANGED <<cfgvars, connections, sem_value, acquiry_lock, next_keepalive_check,
                   clock, handles, nhandles, nrequests, loc>>

\* except Exception as exc: proxy_connection.close(); raise ProxyError(exc)
TunnelFails(t) ==
    /\ handles' = [handles EXCEPT ![loc[t].proxy_connection] = close_handle(@)]
    /\ outcome' = [outcome EXCEPT ![t] = "ProxyError"]
    /\ pc' = [pc EXCEPT ![t] = "done"]
    /\ UNCHANGED <<cfgvars, connections, sem_value, acquiry_lock, next_keepalive_check,
                   clock, nhandles, nrequests, loc>>

\* The scan found nothing to reuse: proxy_connection = SyncHTTPConnection(
\* origin=self.proxy_origin, ...), kept in a local and not added to the pool.
TunnelStep_Aux(t) ==
    /\ pc[t] = "scanned"
    /\ loc[t].path = "tunnel"
    /\ loc[t].connection = None
    /\ nhandles < MaxHandles
    /\ nhandles' = nhandles + 1
    /\ handles' = [handles EXCEPT ![nhandles + 1] = NewHandle(ProxyOrigin)]
    /\ loc' = [loc EXCEPT ![t] = [ScanReturned(t, None) EXCEPT
                                     !.proxy_connection = nhandles + 1]]
    /\ pc' = [pc EXCEPT ![t] = "tunnel_connect"]
    /\ UNCHANGED <<cfgvars, connections, sem_value, acquiry_lock, next_keepalive_check,
                   clock, nrequests, outcome>>

\* proxy_connection.request(b"CONNECT", ...): it raises, or the auxiliary
\* handle opens its socket and returns a response with some status.
TunnelStep_Connect(t) ==
    /\ pc[t] = "tunnel_connect"
    /\ \/ TunnelFails(t)
       \/ /\ \E proto \in Protocols :
                handles' = [handles EXCEPT ![loc[t].proxy_connection] =
                              [AfterRequest(@, proto) EXCEPT
                                 !.socket = loc[t].proxy_connection]]
          /\ \E status \in {"2xx", "other"} :
                loc' = [loc EXCEPT ![t].proxy_status = status]
          /\ pc' = [pc EXCEPT ![t] = "tunnel_drain"]
          /\ UNCHANGED <<cfgvars, connections, sem_value, acquiry_lock,
                         next_keepalive_check, clock, nhandles, nrequests, outcome>>

\* for _ in proxy_stream: pass -- the body is read to its end, or a read raises.
TunnelStep_Drain(t) ==
    /\ pc[t] = "tunnel_drain"
    /\ \/ TunnelFails(t)
       \/ /\ loc' = [loc EXCEPT ![t].drained = TRUE]
          /\ pc' = [pc EXCEPT ![t] = "tunnel_status"]
          /\ UNCHANGED <<cfgvars, connections, sem_value, acquiry_lock,
                         next_keepalive_check, clock, handles, nhandles, nrequests,
                         outcome>>

\* A status check that goes on to the new handle without start_tls.
TunnelStep_Status_skips_tls(t) ==
    /\ pc[t] = "tunnel_status"
    /\ IF loc[t].proxy_status # "2xx"
       THEN TunnelFails(t)
       ELSE /\ pc' = [pc EXCEPT ![t] = "tunnel_new"]
            /\ UNCHANGED <<cfgvars, connections, sem_value, acquiry_lock,
                           next_keepalive_check, clock, handles, nhandles, nrequests,
                           loc, outcome>>

\* if proxy_status_code < 200 or proxy_status_code > 299: raise ProxyError(msg)
\* (caught by the except clause below it); if scheme == b"https": start_tls.
TunnelStep_Status(t) ==
    /\ pc[t] = "tunnel_status"
    /\ IF loc[t].proxy_status # "2xx"
       THEN TunnelFails(t)
       ELSE /\ pc' = [pc EXCEPT ![t] = IF loc[t].origin[1] = "https"
                                       THEN "tunnel_tls" ELSE "tunnel_new"]
            /\ UNCHANGED <<cfgvars, connections, sem_value, acquiry_lock,
                           next_keepalive_check, clock, handles, nhandles, nrequests,
                           loc, outcome>>

\* proxy_connection.start_tls(host, timeout): it returns or it raises.
TunnelStep_StartTls(t) ==
    /\ pc[t] = "tunnel_tls"
    /\ \/ TunnelFails(t)
       \/ /\ loc' = [loc EXCEPT ![t].tls = TRUE]
          /\ pc' = [pc EXCEPT ![t] = "tunnel_new"]
          /\ UNCHANGED <<cfgvars, connections, sem_value, acquiry_lock,
                         next_keepalive_check, clock, handles, nhandles, nrequests,
                         outcome>>

\* connection = SyncHTTPConnection(origin=origin, ...,
\* socket=proxy_connection.socket) and the entry of _add_to_pool.
TunnelStep_NewHandle(t) ==
    /\ pc[t] = "tunnel_new"
    /\ nhandles < MaxHandles
    /\ nhandles' = nhandles + 1
    /\ handles' = [handles EXCEPT ![nhandles + 1] =
                     [NewHandle(loc[t].origin) EXCEPT
                        !.socket = handles[loc[t].proxy_connection].socket]]
    /\ loc' = [loc EXCEPT ![t].connection = nhandles + 1,
                          ![t].semaphore = AddEntrySemaphore]
    /\ pc' = [pc EXCEPT ![t] = AddEntryPc]
    /\ UNCHANGED <<cfgvars, connections, sem_value, acquiry_lock, next_keepalive_check,
                   clock, nrequests, outcome>>

\* ------------------------------------------------------------- environment
\* The backend's monotonic clock advances (it is read only when a keep-alive
\* expiry is configured).
Tick ==
    /\ keepalive_expiry # None
    /\ clock < MaxTime
    /\ clock' = clock + 1
    /\ UNCHANGED <<cfgvars, connections, sem_value, acquiry_lock, next_keepalive_check,
                   handles, nhandles, nrequests, pc, loc, outcome>>

\* The peer of an idle handle disconnects: its socket becomes readable.
PeerClosed(c) ==
    /\ handles[c].state = IDLE
    /\ ~handles[c].readable
    /\ handles' = [handles EXCEPT ![c].readable = TRUE]
    /\ UNCHANGED <<cfgvars, connections, sem_value, acquiry_lock, next_keepalive_check,
                   clock, nhandles, nrequests, pc, loc, outcome>>

\* ------------------------------------------- close() with a close that raises
\* for connection in connections: connection.close(), where the close of one
\* handle raises: the loop ends there and the exception leaves close().  The
\* handles iterated before it are closed, the others are never reached;
\* whether the raising close got as far as marking its own handle CLOSED is
\* open.
Close_CloseRaises(t) ==
    /\ pc[t] = "close"
    /\ \E bad \in loc[t].todo, marked \in BOOLEAN :
        handles' = [handles EXCEPT ![bad] = IF marked THEN close_handle(@) ELSE @]
    /\ loc' = [loc EXCEPT ![t].todo = {}]
    /\ pc' = [pc EXCEPT ![t] = "done"]
    /\ outcome' = [outcome EXCEPT ![t] = "close_error"]
    /\ UNCHANGED <<cfgvars, connections, sem_value, acquiry_lock, next_keepalive_check,
                   clock, nhandles, nrequests>>

\* ------------------------------------ ResponseByteStream.close(), other runs
\* self.stream.close() raises: the finally-block still calls the callback.
\* What the failed close did to the handle is open.
Body_CloseRaises(t) ==
    /\ pc[t] = "body"
    /\ \E closed \in BOOLEAN :
        handles' = [handles EXCEPT ![loc[t].connection] =
                       IF closed THEN close_handle(@) ELSE @]
    /\ loc' = [loc EXCEPT ![t].reused = FALSE, ![t].callbacks = @ + 1,
                          ![t].stream_error = TRUE]
    /\ pc' = [pc EXCEPT ![t] = "response_closed"]
    /\ UNCHANGED <<cfgvars, connections, sem_value, acquiry_lock, next_keepalive_check,
                   clock, nhandles, nrequests, outcome>>

\* The caller calls close() on the body stream once more: close() keeps no
\* record of having run, so the underlying close and the callback run again.
\* What a second close of the underlying stream does to the handle is open.
Body_CloseAgain(t) ==
    /\ pc[t] = "done"
    /\ outcome[t] = "body_closed"
    /\ loc[t].callbacks < 2
    /\ \E closed \in BOOLEAN :
        handles' = [handles EXCEPT ![loc[t].connection] =
                       IF closed THEN close_handle(@) ELSE @]
    /\ loc' = [loc EXCEPT ![t].callbacks = @ + 1, ![t].removal = Nil,
                          ![t].connections_to_close = {}]
    /\ pc' = [pc EXCEPT ![t] = "response_closed"]
    /\ outcome' = [outcome EXCEPT ![t] = Nil]
    /\ UNCHANGED <<cfgvars, connections, sem_value, acquiry_lock, next_keepalive_check,
                   clock, nhandles, nrequests>>

\* ------------------------------------------------- request(): URL checks
\* URLs that fail the preconditions of request(): a scheme that is neither
\* http nor https, and an empty host.
BadUrls == { [scheme |-> "ftp", host |-> "a"], [scheme |-> "http", host |-> ""] }

\* The checks at the top of SyncConnectionPool.request: the error raised for
\* the URL, or Nil if it passes.
Validate(url) ==
    IF url.scheme \notin {"http", "https"} THEN "UnsupportedProtocol"
    ELSE IF url.host = "" THEN "LocalProtocolError"
    ELSE Nil

\* Does request() check the URL?  SyncHTTPProxy.request replaces the base
\* method and has no check of its own.
ChecksUrl == kind = "pool"

\* A caller enters request() with a URL that fails the preconditions.  The
\* base pool raises at once.  The proxy goes on as for any URL: the sweep,
\* then the dispatch.  (A bad URL that the proxy would tunnel is left out:
\* its origin comes from url_to_origin, which is not part of this code.)
Request_Invalid(t) ==
    /\ pc[t] = "idle"
    /\ nrequests < MaxRequests
    /\ \E url \in BadUrls :
        /\ RequestPath(url) # "tunnel"
        /\ loc' = [u \in Threads |->
                  IF u = t
                  THEN [NoLocals EXCEPT !.origin = IF ChecksUrl THEN NoOrigin
                                                   ELSE RequestOrigin(url),
                                        !.path = RequestPath(url),
                                        !.invalid = Validate(url),
                                        !.now = IF ~ChecksUrl /\ SweepReadsClock
                                                THEN clock ELSE 0]
                  ELSE [loc[u] EXCEPT !.undisturbed = FALSE]]
        /\ outcome' = [outcome EXCEPT ![t] = IF ChecksUrl THEN Validate(url) ELSE Nil]
    /\ nrequests' = nrequests + 1
    /\ pc' = [pc EXCEPT ![t] = IF ChecksUrl THEN "done"
                               ELSE IF SweepReadsClock THEN "sweep_check"
                               ELSE "acquire"]
    /\ UNCHANGED <<cfgvars, connections, sem_value, acquiry_lock, next_keepalive_check,
                   clock, handles, nhandles>>

\* ------------------------------------------- the thread lock, step by step
\* An _add_to_pool that enters the thread lock before it acquires the
\* semaphore.
ThreadLockEntryPc_before_semaphore == "add"

\* Where _add_to_pool enters `with self._thread_lock`: after
\* semaphore.acquire() has returned.
ThreadLockEntryPc == "add_insert"

\* with self._thread_lock: entered once the lock is free.
ThreadLock_Enter(t) ==
    /\ pc[t] \in {ThreadLockEntryPc} \cup RemoveFromPoolPcs
    /\ ~HoldsThreadLock(t)
    /\ ThreadLockFree
    /\ loc' = [loc EXCEPT ![t].in_thread_lock = TRUE]
    /\ UNCHANGED <<cfgvars, connections, sem_value, acquiry_lock, next_keepalive_check,
                   clock, handles, nhandles, nrequests, pc, outcome>>

\* The blocks themselves, begun by the thread that has entered.
Locks_SetDefault(t) == HoldsThreadLock(t) /\ AddToPool_SetDefault(t)

Locks_RemoveTest(t) == HoldsThreadLock(t) /\ RemoveFromPool_Test(t)

\* ============================================================ specifications
\* The steps of the pool's methods, by method, for one thread.
SweepSteps(t) ==
    \/ KeepaliveSweep_Check(t)
    \/ KeepaliveSweep_Schedule(t)
    \/ KeepaliveSweep_Collect(t)
    \/ KeepaliveSweep_State(t)
    \/ KeepaliveSweep_Expiry(t)
    \/ KeepaliveSweep_Due(t)
    \/ KeepaliveSweep_Close(t)

LockSteps(t) ==
    \/ Pool_Lock(t)
    \/ Lock_Create(t)
    \/ Lock_Return(t)
    \/ Pool_Acquire(t)
    \/ Pool_Scan(t)

ScanSteps(t) ==
    \/ Scan_Next(t)
    \/ Scan_State(t)
    \/ Scan_Readable(t)
    \/ Scan_Active(t)
    \/ Scan_Pending(t)
    \/ Scan_Finish(t)
    \/ Scan_Expiry(t)
    \/ Scan_Close(t)

RemoveSteps(t) ==
    \/ RemoveFromPool_Test(t)
    \/ RemoveFromPool_Release(t)
    \/ RemoveFromPool_Remove(t)
    \/ RemoveFromPool_Del(t)

\* The with-block of _add_to_pool.
InsertSteps(t) == AddToPool_SetDefault(t) \/ AddToPool_Add(t)

\* _add_to_pool on a pool with a connection limit, PoolTimeout left aside.
AddSteps(t) ==
    \/ Semaphore_Create(t)
    \/ Semaphore_Return(t)
    \/ AddToPool_Acquire(t)
    \/ InsertSteps(t)

\* connection.request() on a connection that works: the response, or the
\* handle's refusal, after which request() tries again; the return of the
\* call; the close of the body.
ResponseSteps(t) ==
    \/ Request_Response(t)
    \/ Request_NewConnectionRequired(t)
    \/ Return(t)
    \/ Body_Close(t)
    \/ ResponseClosed_Check(t)
    \/ ResponseClosed_Idle(t)
    \/ ResponseClosed_Count(t)

CloseSteps(t) ==
    \/ Close_Start(t)
    \/ Close_Collect(t)
    \/ Close_Close(t)

InfoSteps(t) ==
    \/ Info_Start(t)
    \/ Info_Next(t)
    \/ Info_SetIter(t)
    \/ Info_SetRaise(t)
    \/ Info_Info(t)
    \/ Info_SetStop(t)

ForwardSteps(t) == Forward_Scan(t) \/ Forward_Reuse(t) \/ Forward_Create(t)

TunnelSteps(t) ==
    \/ Tunnel_Scan(t)
    \/ Tunnel_Reuse(t)
    \/ TunnelStep_Aux(t)
    \/ TunnelStep_Connect(t)
    \/ TunnelStep_Drain(t)
    \/ TunnelStep_Status(t)
    \/ TunnelStep_StartTls(t)
    \/ TunnelStep_NewHandle(t)

\* ------------------------------------------- the base pool with an expiry
\* A base pool without a connection limit and with a keep-alive expiry.
Configs ==
    { [kind |-> "pool", proxy_mode |-> Nil, http2 |-> FALSE, max_connections |-> None,
       max_keepalive_connections |-> None, keepalive_expiry |-> 1] }

Init == \E c \in Configs : InitState(c)

\* Two callers of request() and get_connection_info() on that pool, while
\* time passes.
Next ==
    \/ \E t \in Threads : Request(t)
    \/ \E t \in Threads : SweepSteps(t)
    \/ \E t \in Threads : LockSteps(t)
    \/ \E t \in Threads : ScanSteps(t)
    \/ \E t \in Threads : RemoveSteps(t)
    \/ \E t \in Threads : Pool_Reuse(t)
    \/ \E t \in Threads : Pool_Create(t)
    \/ \E t \in Threads : Pool_Unlock(t)
    \/ \E t \in Threads : AddToPool_Acquire(t)
    \/ \E t \in Threads : InsertSteps(t)
    \/ \E t \in Threads : ResponseSteps(t)
    \/ \E t \in Threads : ResponseClosed_Now(t)
    \/ \E t \in Threads : ResponseClosed_Stamp(t)
    \/ \E t \in Threads : InfoSteps(t)
    \/ Tick

Spec == Init /\ [][Next]_vars

\* ------------------------------------- the base pool with a connection limit
\* A base pool with one connection slot.
LimitConfigs ==
    { [kind |-> "pool", proxy_mode |-> Nil, http2 |-> FALSE, max_connections |-> 1,
       max_keepalive_connections |-> None, keepalive_expiry |-> None] }

InitLimit == \E c \in LimitConfigs : InitState(c)

\* Two callers of request() and close() on that pool: requests that get a
\* response, that fail on the handle or that run out of time for a slot,
\* while peers disconnect.
NextLimit ==
    \/ \E t \in Threads : Request(t)
    \/ \E t \in Threads : LockSteps(t)
    \/ \E t \in Threads : ScanSteps(t)
    \/ \E t \in Threads : RemoveSteps(t)
    \/ \E t \in Threads : Pool_Reuse(t)
    \/ \E t \in Threads : Pool_Create(t)
    \/ \E t \in Threads : Pool_Unlock(t)
    \/ \E t \in Threads : AddSteps(t)
    \/ \E t \in Threads : AddToPool_Timeout(t)
    \/ \E t \in Threads : ResponseSteps(t)
    \/ \E t \in Threads : Request_Error(t)
    \/ \E t \in Threads : CloseSteps(t)
    \/ \E c \in Handles : PeerClosed(c)

SpecLimit == InitLimit /\ [][NextLimit]_vars

\* ------------------------------------------------- the base pool with HTTP/2
\* A base pool with http2 and without limits.
Http2Configs ==
    { [kind |-> "pool", proxy_mode |-> Nil, http2 |-> TRUE, max_connections |-> None,
       max_keepalive_connections |-> None, keepalive_expiry |-> None] }

InitHttp2 == \E c \in Http2Configs : InitState(c)

\* Two callers of request() on that pool, while peers disconnect.
NextHttp2 ==
    \/ \E t \in Threads : Request(t)
    \/ \E t \in Threads : LockSteps(t)
    \/ \E t \in Threads : ScanSteps(t)
    \/ \E t \in Threads : RemoveSteps(t)
    \/ \E t \in Threads : Pool_Reuse(t)
    \/ \E t \in Threads : Pool_Create(t)
    \/ \E t \in Threads : Pool_Unlock(t)
    \/ \E t \in Threads : AddToPool_Acquire(t)
    \/ \E t \in Threads : InsertSteps(t)
    \/ \E t \in Threads : ResponseSteps(t)
    \/ \E c \in Handles : PeerClosed(c)

SpecHttp2 == InitHttp2 /\ [][NextHttp2]_vars

\* ------------------------------------------ the base pool with a keep-alive cap
\* A base pool with a keep-alive cap of one and no connection limit.
CapConfigs ==
    { [kind |-> "pool", proxy_mode |-> Nil, http2 |-> FALSE, max_connections |-> None,
       max_keepalive_connections |-> 1, keepalive_expiry |-> None] }

InitCap == \E c \in CapConfigs : InitState(c)

\* Two callers of request() on that pool, and the close of their bodies.
NextCap ==
    \/ \E t \in Threads : Request(t)
    \/ \E t \in Threads : LockSteps(t)
    \/ \E t \in Threads : ScanSteps(t)
    \/ \E t \in Threads : RemoveSteps(t)
    \/ \E t \in Threads : Pool_Reuse(t)
    \/ \E t \in Threads : Pool_Create(t)
    \/ \E t \in Threads : Pool_Unlock(t)
    \/ \E t \in Threads : AddToPool_Acquire(t)
    \/ \E t \in Threads : InsertSteps(t)
    \/ \E t \in Threads : ResponseSteps(t)
    \/ \E t \in Threads : ResponseClosed_Close(t)

SpecCap == InitCap /\ [][NextCap]_vars

\* ------------------------------------------ dropped handles and close()
\* A base pool with two connection slots.
EvictConfigs ==
    { [kind |-> "pool", proxy_mode |-> Nil, http2 |-> FALSE, max_connections |-> 2,
       max_keepalive_connections |-> None, keepalive_expiry |-> None] }

InitEvict == \E c \in EvictConfigs : InitState(c)

\* Two callers of request() and close() on that pool, while peers disconnect.
NextEvict ==
    \/ \E t \in Threads : Request(t)
    \/ \E t \in Threads : LockSteps(t)
    \/ \E t \in Threads : ScanSteps(t)
    \/ \E t \in Threads : RemoveSteps(t)
    \/ \E t \in Threads : Pool_Reuse(t)
    \/ \E t \in Threads : Pool_Create(t)
    \/ \E t \in Threads : Pool_Unlock(t)
    \/ \E t \in Threads : AddSteps(t)
    \/ \E t \in Threads : AddToPool_Timeout(t)
    \/ \E t \in Threads : ResponseSteps(t)
    \/ \E t \in Threads : CloseSteps(t)
    \/ \E c \in Handles : PeerClosed(c)

SpecEvict == InitEvict /\ [][NextEvict]_vars

\* ---------------------------------------------------------------- the proxy
\* A proxy in DEFAULT mode (http forwarded, https tunnelled) with one
\* connection slot.
ProxyConfigs ==
    { [kind |-> "proxy", proxy_mode |-> "DEFAULT", http2 |-> FALSE, max_connections |-> 1,
       max_keepalive_connections |-> None, keepalive_expiry |-> None] }

InitProxy == \E c \in ProxyConfigs : InitState(c)

\* Two callers of request() and close() on the proxy: forwarded and
\* tunnelled requests, requests that fail on the handle, peers that
\* disconnect.
NextProxy ==
    \/ \E t \in Threads : Request(t)
    \/ \E t \in Threads : ForwardSteps(t)
    \/ \E t \in Threads : TunnelSteps(t)
    \/ \E t \in Threads : ScanSteps(t)
    \/ \E t \in Threads : RemoveSteps(t)
    \/ \E t \in Threads : AddSteps(t)
    \/ \E t \in Threads : AddToPool_Timeout(t)
    \/ \E t \in Threads : ResponseSteps(t)
    \/ \E t \in Threads : Request_Error(t)
    \/ \E t \in Threads : CloseSteps(t)
    \/ \E c \in Handles : PeerClosed(c)

SpecProxy == InitProxy /\ [][NextProxy]_vars

\* ------------------------------------------------------ the tunnelling proxy
\* A proxy that tunnels every request, with two connection slots.
TunnelConfigs ==
    { [kind |-> "proxy", proxy_mode |-> "TUNNEL_ONLY", http2 |-> FALSE,
       max_connections |-> 2, max_keepalive_connections |-> None,
       keepalive_expiry |-> None] }

InitTunnel == \E c \in TunnelConfigs : InitState(c)

\* Two callers of request() and close() on that proxy.
NextTunnel ==
    \/ \E t \in Threads : Request(t)
    \/ \E t \in Threads : TunnelSteps(t)
    \/ \E t \in Threads : ScanSteps(t)
    \/ \E t \in Threads : RemoveSteps(t)
    \/ \E t \in Threads : AddSteps(t)
    \/ \E t \in Threads : ResponseSteps(t)
    \/ \E t \in Threads : Request_Error(t)
    \/ \E t \in Threads : CloseSteps(t)
    \/ \E c \in Handles : PeerClosed(c)

SpecTunnel == InitTunnel /\ [][NextTunnel]_vars

\* --------------------------------------------- close() with a raising close
\* A base pool without limits.
CloseConfigs ==
    { [kind |-> "pool", proxy_mode |-> Nil, http2 |-> FALSE, max_connections |-> None,
       max_keepalive_connections |-> None, keepalive_expiry |-> None] }

InitClose == \E c \in CloseConfigs : InitState(c)

\* Requests that succeed on that pool, their bodies closed, and close(),
\* where a handle's close may raise.
NextClose ==
    \/ \E t \in Threads : Request(t)
    \/ \E t \in Threads : LockSteps(t)
    \/ \E t \in Threads : ScanSteps(t)
    \/ \E t \in Threads : RemoveSteps(t)
    \/ \E t \in Threads : Pool_Reuse(t)
    \/ \E t \in Threads : Pool_Create(t)
    \/ \E t \in Threads : Pool_Unlock(t)
    \/ \E t \in Threads : AddToPool_Acquire(t)
    \/ \E t \in Threads : InsertSteps(t)
    \/ \E t \in Threads : ResponseSteps(t)
    \/ \E t \in Threads : CloseSteps(t)
    \/ \E t \in Threads : Close_CloseRaises(t)

SpecClose == InitClose /\ [][NextClose]_vars

\* ------------------------------------------- the ways a body stream is closed
\* Requests that succeed on the pool without limits and the ways their
\* bodies are closed.
NextBody ==
    \/ \E t \in Threads : Request(t)
    \/ \E t \in Threads : LockSteps(t)
    \/ \E t \in Threads : ScanSteps(t)
    \/ \E t \in Threads : RemoveSteps(t)
    \/ \E t \in Threads : Pool_Reuse(t)
    \/ \E t \in Threads : Pool_Create(t)
    \/ \E t \in Threads : Pool_Unlock(t)
    \/ \E t \in Threads : AddToPool_Acquire(t)
    \/ \E t \in Threads : InsertSteps(t)
    \/ \E t \in Threads : ResponseSteps(t)
    \/ \E t \in Threads : Body_CloseRaises(t)
    \/ \E t \in Threads : Body_CloseAgain(t)

SpecBody == InitClose /\ [][NextBody]_vars

\* ------------------------------------------------------ requests with bad URLs
\* A base pool and a forwarding proxy, both without limits.
ValidateConfigs ==
    { [kind |-> "pool", proxy_mode |-> Nil, http2 |-> FALSE, max_connections |-> None,
       max_keepalive_connections |-> None, keepalive_expiry |-> None],
      [kind |-> "proxy", proxy_mode |-> "FORWARD_ONLY", http2 |-> FALSE,
       max_connections |-> None, max_keepalive_connections |-> None,
       keepalive_expiry |-> None] }

InitValidate == \E c \in ValidateConfigs : InitState(c)

\* Requests with good and bad URLs, on the base pool and the forward path.
NextValidate ==
    \/ \E t \in Threads : Request(t)
    \/ \E t \in Threads : Request_Invalid(t)
    \/ \E t \in Threads : LockSteps(t)
    \/ \E t \in Threads : ForwardSteps(t)
    \/ \E t \in Threads : ScanSteps(t)
    \/ \E t \in Threads : RemoveSteps(t)
    \/ \E t \in Threads : Pool_Reuse(t)
    \/ \E t \in Threads : Pool_Create(t)
    \/ \E t \in Threads : Pool_Unlock(t)
    \/ \E t \in Threads : AddToPool_Acquire(t)
    \/ \E t \in Threads : InsertSteps(t)
    \/ \E t \in Threads : ResponseSteps(t)

SpecValidate == InitValidate /\ [][NextValidate]_vars

\* ------------------------------------------------ the locks, step by step
\* A base pool with two connection slots and a keep-alive cap of one.
LocksConfigs ==
    { [kind |-> "pool", proxy_mode |-> Nil, http2 |-> FALSE, max_connections |-> 2,
       max_keepalive_connections |-> 1, keepalive_expiry |-> None] }

InitLocks == \E c \in LocksConfigs : InitState(c)

\* Requests and close() on that pool, with the entry of every
\* `with self._thread_lock` block a step of its own: a thread that finds the
\* lock taken stands before the block until it is free.
NextLocks ==
    \/ \E t \in Threads : Request(t)
    \/ \E t \in Threads : LockSteps(t)
    \/ \E t \in Threads : ScanSteps(t)
    \/ \E t \in Threads : Pool_Reuse(t)
    \/ \E t \in Threads : Pool_Create(t)
    \/ \E t \in Threads : Pool_Unlock(t)
    \/ \E t \in Threads : Semaphore_Create(t)
    \/ \E t \in Threads : Semaphore_Return(t)
    \/ \E t \in Threads : AddToPool_Acquire(t)
    \/ \E t \in Threads : AddToPool_Timeout(t)
    \/ \E t \in Threads : ThreadLock_Enter(t)
    \/ \E t \in Threads : Locks_SetDefault(t)
    \/ \E t \in Threads : AddToPool_Add(t)
    \/ \E t \in Threads : Locks_RemoveTest(t)
    \/ \E t \in Threads : RemoveFromPool_Release(t)
    \/ \E t \in Threads : RemoveFromPool_Remove(t)
    \/ \E t \in Threads : RemoveFromPool_Del(t)
    \/ \E t \in Threads : ResponseSteps(t)
    \/ \E t \in Threads : Request_Error(t)
    \/ \E t \in Threads : ResponseClosed_Close(t)
    \/ \E t \in Threads : Close_Start(t)
    \/ \E t \in Threads : Close_Collect(t)
    \/ \E t \in Threads : Close_Close(t)

SpecLocks == InitLocks /\ [][NextLocks]_vars

\* ------------------------------------------------ admission, with fairness
\* The base pool with one connection slot.
InitAdmission == \E c \in LimitConfigs : InitState(c)

\* A step of the pool's own code in thread t, once request() or the body's
\* close() has been called; semaphore.acquire(timeout) is among them: it
\* returns with a permit or it raises when its time is up.
CodeStep(t) ==
    \/ LockSteps(t)
    \/ ScanSteps(t)
    \/ RemoveSteps(t)
    \/ Pool_Reuse(t)
    \/ Pool_Create(t)
    \/ Pool_Unlock(t)
    \/ AddSteps(t)
    \/ AddToPool_Timeout(t)
    \/ Request_Response(t)
    \/ Request_NewConnectionRequired(t)
    \/ Request_Error(t)
    \/ Return(t)
    \/ ResponseClosed_Check(t)
    \/ ResponseClosed_Idle(t)
    \/ ResponseClosed_Count(t)

\* What the callers decide: to start a request, to close a body.
CallerStep(t) == Request(t) \/ Body_Close(t)

NextAdmission == \E t \in Threads : CodeStep(t) \/ CallerStep(t)

\* The code of every thread keeps running: a thread that can take a step
\* for good takes one.  Nothing more is asked of the locks, and nothing
\* obliges a caller to start a request or to close a body.
FairAdmission == \A t \in Threads : WF_vars(CodeStep(t))

SpecAdmission == InitAdmission /\ [][NextAdmission]_vars /\ FairAdmission

\* ================================================================== claims
PooledCount == Cardinality(Pooled(connections))

\* The locals of a thread without the two fields that a step of another
\* thread can change (undisturbed, and lock when a lock object is dropped).
OwnLocals(l) == [l EXCEPT !.undisturbed = FALSE, !.lock = None]

\* The step is one of thread t's own.
Moves(t) == pc'[t] # pc[t] \/ OwnLocals(loc'[t]) # OwnLocals(loc[t])

\* The step is one of thread t's own, taken from the position p.
StepFrom(t, p) == pc[t] = p /\ Moves(t)

\* C1: when max_connections is set, the handles held in `connections` over
\* all origins never number more than max_connections, on the base pool and
\* on the proxy pool, whatever the interleaving.
C1_PooledWithinMaxConnections ==
    max_connections # None => PooledCount <= max_connections

\* Thread t is inside _add_to_pool.
InAddToPool(t) == pc[t] \in {"sem_create", "sem_return", "add", "add_insert", "add_member"}

\* Thread t is inside _remove_from_pool, past its membership test.
InRemoveFromPool(t) == loc[t].removing # Nil

\* The slots held on the pool's semaphore, self._internal_semaphore: the
\* permits it was made with less the permits it has free.
SlotsHeld ==
    IF max_connections = None \/ ~sem_exists(sem_value) THEN 0
    ELSE max_connections - sem_value[sem_current(sem_value)]

\* C2, the count: with no _add_to_pool and no _remove_from_pool part-way
\* through, the slots held on the pool's semaphore equal the handles pooled.
C2_SlotsMatchPooled ==
    (/\ max_connections # None
     /\ \A t \in Threads : ~InAddToPool(t) /\ ~InRemoveFromPool(t))
        => SlotsHeld = PooledCount

\* C2, the membership test: it changes nothing, and _remove_from_pool goes
\* on to its release exactly if the handle it was called for is a member;
\* for an absent handle the call is over with the test.
C2_RemovalTestsMembership ==
    \A t \in Threads :
        (pc[t] \in RemoveFromPoolPcs /\ loc[t].removing = Nil /\ Moves(t)) =>
            /\ connections' = connections
            /\ sem_value' = sem_value
            /\ IF loc'[t].removing = "release"
               THEN loc'[t].current \in Pooled(connections)
               ELSE /\ loc'[t].removing = Nil
                    /\ \E c \in RemovalTargets(t) : c \notin Pooled(connections)

\* C2, the lines after the test: one permit is given back, then the handle
\* leaves its set, then the key of an emptied set is deleted.
C2_RemovalReleasesOnce ==
    \A t \in Threads :
        LET c == loc[t].current
        IN  /\ (loc[t].removing = "release" /\ Moves(t)) =>
                  /\ c \in Pooled(connections)
                  /\ sem_value' = sem_release(sem_value)
                  /\ sem_taken(sem_value') = sem_taken(sem_value) - 1
                  /\ connections' = connections
                  /\ loc'[t].removing = "remove"
            /\ (loc[t].removing = "remove" /\ Moves(t)) =>
                  /\ c \in Pooled(connections)
                  /\ Pooled(connections') = Pooled(connections) \ {c}
                  /\ sem_value' = sem_value
            /\ (loc[t].removing = "del" /\ Moves(t)) =>
                  /\ Pooled(connections') = Pooled(connections)
                  /\ sem_value' = sem_value

\* C2: the slots held on the semaphore equal the handles pooled whenever no
\* _add_to_pool and no _remove_from_pool is part-way through;
\* _remove_from_pool releases a slot only for a handle that is a member,
\* once, and for an absent one changes neither `connections` nor the
\* semaphore.
C2_SemaphoreReleasedOncePerAdd ==
    /\ [](C2_SlotsMatchPooled)
    /\ [][C2_RemovalTestsMembership /\ C2_RemovalReleasesOnce]_vars

\* C3: on the base pool an HTTP/1.1 handle that a scan returned as its reuse
\* candidate is held, until its response body is closed, by that one caller:
\* no second caller's scan returns it in the meantime.
C3_ReusedHandleHasOneCaller ==
    kind = "pool" =>
        \A c \in Handles :
            is_http11(handles[c]) =>
                Cardinality({t \in Threads : loc[t].reused /\ loc[t].connection = c}) <= 1

\* C4, the loop: a handle that is PENDING when the loop tests it for that is
\* remembered as the pending candidate, and an HTTP/1.1 handle as seen.
C4_ScanSeesPending ==
    \A t \in Threads :
        http2 =>
            /\ StepFrom(t, "scan_loop") =>
                  /\ is_http11(handles[loc'[t].current]) => loc'[t].seen_http11
                  /\ loc[t].seen_http11 => loc'[t].seen_http11
            /\ StepFrom(t, "scan_pending") =>
                  (handles[loc[t].current].state = PENDING
                      => loc'[t].pending_connection = loc[t].current)

\* C4, the scan's result: with a PENDING handle seen and no HTTP/1.1 handle,
\* the scan returns a handle, and the PENDING one if there is no reuse candidate.
C4_PendingIsShared ==
    \A t \in Threads :
        (/\ http2
         /\ pc[t] \in {"scan_close", "scanned"}
         /\ loc[t].pending_connection # None
         /\ ~loc[t].seen_http11)
            => /\ loc[t].connection # None
               /\ loc[t].reuse_connection = None
                    => loc[t].connection = loc[t].pending_connection

\* C4, creation: a caller constructs a handle only if its scan saw no PENDING
\* handle or saw an HTTP/1.1 handle.
C4_NoHandleCreatedBesidePending ==
    \A t \in Threads :
        (/\ http2
         /\ StepFrom(t, "scanned")
         /\ nhandles' = nhandles + 1)
            => (loc[t].pending_connection = None \/ loc[t].seen_http11)

\* C4, concurrent creation: while one caller is adding the PENDING handle it
\* created for an origin, no other caller whose scan saw no HTTP/1.1 handle
\* of that origin constructs a second one.
C4_OneCreationPerPendingOrigin ==
    \A t \in Threads :
        (/\ kind = "pool" /\ http2
         /\ StepFrom(t, "scanned")
         /\ nhandles' = nhandles + 1
         /\ ~loc[t].seen_http11)
            => \A u \in Threads \ {t} :
                   (/\ InAddToPool(u)
                    /\ loc[u].origin = loc[t].origin)
                       => handles[loc[u].connection].state # PENDING

\* C4: on the base pool with http2, while the first handle created for an
\* origin is PENDING and no HTTP/1.1 handle of the origin exists, exactly one
\* handle is created for the origin: a caller whose scan comes upon the
\* PENDING handle is given a handle of the pool (the PENDING one unless a
\* reuse candidate exists), and no caller constructs a handle of its own
\* beside it.
C4_OneHandlePerPendingOrigin ==
    /\ [](C4_PendingIsShared)
    /\ [][/\ C4_ScanSeesPending
          /\ C4_NoHandleCreatedBesidePending
          /\ C4_OneCreationPerPendingOrigin]_vars

\* The positions of the scan's first loop.
ScanLoopPcs ==
    {"scan_loop", "scan_state", "scan_readable", "scan_active", "scan_pending",
     "scan_remove"}

\* C5, the loop, line by line: the handle it turns to is one of the scanned
\* origin's; it asks the socket of a handle exactly if it has found its state
\* IDLE, and takes the handle as its reuse candidate exactly if the socket
\* answers not readable then (a handle closed since its state was read has
\* no socket to answer for; that it is not returned is asked of the result,
\* below); failing that it takes as reuse candidate a handle it finds ACTIVE
\* and HTTP/2, and failing that as pending candidate a handle it finds
\* PENDING; no other line changes a candidate.
C5_CandidatesQualify ==
    \A t \in Threads :
        LET c == loc[t].current
            h == handles[loc[t].current]
        IN  /\ StepFrom(t, "scan_loop") =>
                  /\ loc'[t].current \in loc[t].todo
                  /\ handles[loc'[t].current].origin = loc[t].origin
                  /\ loc'[t].seen_http11 <=>
                        (loc[t].seen_http11 \/ is_http11(handles[loc'[t].current]))
            /\ StepFrom(t, "scan_state") =>
                  (pc'[t] = "scan_readable" <=> h.state = IDLE)
            /\ StepFrom(t, "scan_readable") =>
                  /\ (h.state # CLOSED /\ ~h.readable) => loc'[t].reuse_connection = c
                  /\ (h.state # CLOSED /\ h.readable) =>
                        (pc'[t] = "scan_remove" /\ loc'[t].reuse_connection # c)
                  /\ loc'[t].reuse_connection \in {c, loc[t].reuse_connection}
            /\ StepFrom(t, "scan_active") =>
                  loc'[t].reuse_connection =
                      IF h.state = ACTIVE /\ is_http2(h) THEN c ELSE loc[t].reuse_connection
            /\ StepFrom(t, "scan_pending") =>
                  loc'[t].pending_connection =
                      IF h.state = PENDING THEN c ELSE loc[t].pending_connection
            /\ (pc[t] \in ScanLoopPcs /\ Moves(t)) =>
                  /\ pc[t] \notin {"scan_readable", "scan_active"}
                        => loc'[t].reuse_connection = loc[t].reuse_connection
                  /\ pc[t] # "scan_pending"
                        => loc'[t].pending_connection = loc[t].pending_connection

\* C5, the candidates between the lines: none before the first iteration,
\* and each one a handle of the scanned origin that the loop has turned to.
C5_CandidatesWereExamined ==
    \A t \in Threads :
        pc[t] \in ScanLoopPcs \cup {"scan", "scan_expiry"} =>
            /\ loc[t].reuse_connection # None =>
                  /\ loc[t].reuse_connection \notin loc[t].todo
                  /\ handles[loc[t].reuse_connection].origin = loc[t].origin
            /\ loc[t].pending_connection # None =>
                  /\ loc[t].pending_connection \notin loc[t].todo
                  /\ handles[loc[t].pending_connection].origin = loc[t].origin

\* C5, the result: the reuse candidate if any, else the PENDING candidate if
\* http2 is enabled and no HTTP/1.1 handle was seen, else none.
C5_ResultIsACandidate ==
    \A t \in Threads :
        pc[t] \in {"scan_close", "scanned"} =>
            LET reuse == loc[t].reuse_connection
                pending == loc[t].pending_connection
                share == http2 /\ pending # None /\ ~loc[t].seen_http11
            IN  /\ reuse # None => loc[t].connection = reuse
                /\ (reuse = None /\ share) => loc[t].connection = pending
                /\ (reuse = None /\ ~share) => loc[t].connection = None

\* C5, on return: the handle that _get_connection_from_pool returns is not
\* CLOSED when it is returned.
C5_ReturnedHandleNotClosed ==
    \A t \in Threads :
        (pc[t] # "scanned" /\ pc'[t] = "scanned" /\ loc'[t].connection # None)
            => handles'[loc'[t].connection].state # CLOSED

\* C5: the handle a scan returns belongs to the scanned origin and was, when
\* the loop read its state, IDLE and its socket not readable when asked, or
\* ACTIVE and HTTP/2, or PENDING; a PENDING one is returned only with http2
\* enabled, no reuse candidate and no HTTP/1.1 handle seen; nothing else is
\* ever returned, none is returned only if no candidate was found, and the
\* handle returned is never a CLOSED one.
C5_ScanReturnsOnlyQualifiedHandles ==
    /\ [](C5_ResultIsACandidate /\ C5_CandidatesWereExamined)
    /\ [][C5_CandidatesQualify /\ C5_ReturnedHandleNotClosed]_vars

\* C6, the loop: a handle that the loop has found IDLE and whose socket is
\* readable when asked is set aside for closing, is not taken as a
\* candidate, and its removal is the next thing the scan does.
C6_DeadPeersSetAside ==
    \A t \in Threads :
        LET c == loc[t].current
        IN  (StepFrom(t, "scan_readable") /\ handles[c].state = IDLE /\ handles[c].readable) =>
                /\ pc'[t] = "scan_remove"
                /\ loc'[t].current = c
                /\ c \in loc'[t].connections_to_close
                /\ loc'[t].reuse_connection = loc[t].reuse_connection
                /\ loc'[t].pending_connection = loc[t].pending_connection

\* C6, the removal: the handle set aside leaves `connections` by the time
\* its _remove_from_pool returns, after a permit was given back if it was
\* still a member; the sets of other origins and all handles are left as
\* they are.
C6_DeadPeersRemoved ==
    \A t \in Threads :
        StepFrom(t, "scan_remove") =>
            LET c == loc[t].current
            IN  /\ Pooled(connections') \in {Pooled(connections), Pooled(connections) \ {c}}
                /\ pc'[t] # "scan_remove" => c \notin Pooled(connections')
                /\ (c \in Pooled(connections) /\ c \notin Pooled(connections'))
                      => loc[t].removing = "remove"
                /\ loc'[t].removing = "remove" =>
                      /\ loc[t].removing = "release"
                      /\ max_connections # None =>
                            sem_taken(sem_value') = sem_taken(sem_value) - 1
                /\ \A o \in Origins \ {loc[t].origin} :
                      dict_get(connections', o) = dict_get(connections, o)
                /\ handles' = handles

\* C6, other origins: the other steps of the scan change no set of
\* `connections` and no permit, and change handles of the scanned origin only.
C6_OnlyScannedOriginTouched ==
    \A t \in Threads :
        (/\ pc[t] \in (ScanLoopPcs \ {"scan_remove"}) \cup {"scan", "scan_expiry", "scan_close"}
         /\ Moves(t)) =>
            /\ connections' = connections
            /\ sem_value' = sem_value
            /\ \A c \in Handles :
                handles'[c] # handles[c] => handles[c].origin = loc[t].origin

\* C6, on return: every dropped handle is CLOSED, out of the pool and not the
\* result.
C6_DeadPeersClosed ==
    \A t \in Threads :
        pc[t] = "scanned" =>
            \A c \in loc[t].connections_to_close :
                /\ handles[c].state = CLOSED
                /\ c \notin Pooled(connections)
                /\ c # loc[t].connection

\* C6: every handle of the scanned origin that the loop finds IDLE and whose
\* socket is readable when asked leaves `connections` with its permit
\* released, is CLOSED when the scan returns, and is not the handle returned;
\* the handles and sets of other origins are left as they were.
C6_DeadPeerEviction ==
    /\ [](C6_DeadPeersClosed)
    /\ [][C6_DeadPeersSetAside /\ C6_DeadPeersRemoved /\ C6_OnlyScannedOriginTouched]_vars

\* A scan has returned after dropping a dead idle handle, with a live handle
\* of another origin still pooled.
C6_Witness ==
    \E t \in Threads :
        /\ pc[t] = "scanned"
        /\ loc[t].connections_to_close # {}
        /\ \E o \in Origins \ {loc[t].origin} :
              \E c \in dict_get(connections, o) : handles[c].state # CLOSED

\* C7, the wait: a caller in semaphore.acquire() with a pool timeout, while
\* every permit is taken, can only leave it with PoolTimeout.
C7_TimeoutCanFire ==
    \A t \in Threads :
        (/\ pc[t] = "add"
         /\ loc[t].timeout # None
         /\ max_connections # None
         /\ sem_held >= max_connections)
            => /\ ENABLED AddToPool_Timeout(t)
               /\ ~ENABLED AddToPool_Acquire(t)

\* C7, the raise: raising PoolTimeout changes neither `connections`, the
\* semaphore nor any handle, and the with-block of request() is left next.
C7_TimeoutLeavesPoolAlone ==
    \A t \in Threads :
        (pc[t] = "add" /\ outcome'[t] = "PoolTimeout")
            => /\ loc[t].timeout # None
               /\ connections' = connections
               /\ sem_value' = sem_value
               /\ handles' = handles
               /\ pc'[t] = "lock_exit"

\* C7, at the caller: the fresh handle is not pooled and the lock is not held.
C7_AfterTimeout ==
    \A t \in Threads :
        (pc[t] = "done" /\ outcome[t] = "PoolTimeout")
            => /\ loc[t].connection \notin Pooled(connections)
               /\ handles[loc[t].connection].state = PENDING
               /\ ~HoldsAcquiryLock(t)

\* C7: a request that needs a new handle while every permit is held raises
\* PoolTimeout once its pool timeout runs out; the handle is discarded, pool
\* and semaphore are as before, and the acquiry lock is released.
C7_PoolTimeoutDiscardsHandle ==
    /\ [](C7_TimeoutCanFire /\ C7_AfterTimeout)
    /\ [][C7_TimeoutLeavesPoolAlone]_vars

\* C8: when connection.request fails with an exception other than
\* NewConnectionRequired, the handle is out of `connections` by the time the
\* exception reaches the caller of request, on the base pool and on both
\* proxy paths.
C8_FailedHandleLeavesPool ==
    \A t \in Threads :
        (pc[t] = "done" /\ outcome[t] = "error")
            => loc[t].connection \notin Pooled(connections)

\* C9: NewConnectionRequired never reaches the caller of request, on the base
\* pool and on both proxy paths.
C9_NewConnectionRequiredNeverSurfaces ==
    \A t \in Threads : outcome[t] # "NewConnectionRequired"

\* C10, on return: when close() has returned and no request ran while it
\* did, `connections` is empty, no permit is held and every handle close()
\* found in the pool is CLOSED.
C10_ClosedPoolIsEmpty ==
    \A t \in Threads :
        (pc[t] = "done" /\ outcome[t] = "pool_closed" /\ loc[t].undisturbed)
            => /\ Pooled(connections) = {}
               /\ sem_held = 0
               /\ \A c \in loc[t].connections_to_close : handles[c].state = CLOSED

\* C10, the order: when close() comes to its closes every handle of its
\* snapshot has already left the pool.
C10_RemovalsBeforeCloses ==
    \A t \in Threads :
        pc[t] = "close"
            => /\ loc[t].connections_to_close \cap Pooled(connections) = {}
               /\ loc[t].undisturbed => Pooled(connections) = {}

\* C10, the removals: while close() removes, it has closed nothing yet.
C10_NothingClosedWhileRemoving ==
    \A t \in Threads : StepFrom(t, "close_remove") => handles' = handles

\* C10: after a close() that returns with no request in progress the pool is
\* empty, no permit is held and the handles it found are CLOSED; within
\* close() all removals come before the first close.
C10_CloseEmptiesPool ==
    /\ [](C10_ClosedPoolIsEmpty /\ C10_RemovalsBeforeCloses)
    /\ [][C10_NothingClosedWhileRemoving]_vars

\* close() has returned, undisturbed, after removing and closing two handles
\* of two origins.
C10_Witness ==
    \E t \in Threads :
        /\ pc[t] = "done" /\ outcome[t] = "pool_closed" /\ loc[t].undisturbed
        /\ Cardinality(loc[t].connections_to_close) = 2
        /\ max_connections # None


\* C11: when the close of one handle raises inside close(), every other handle
\* of the snapshot is closed all the same.
C11_CloseReachesEveryHandle ==
    \A t \in Threads :
        (pc[t] = "done" /\ outcome[t] = "close_error")
            => Cardinality({c \in loc[t].connections_to_close :
                               handles[c].state # CLOSED}) <= 1

\* The positions inside _response_closed.
ResponseClosedPcs ==
    {"response_closed", "rc_idle", "rc_iter", "rc_now", "rc_stamp", "rc_remove", "rc_close"}

\* C12: a response's body stream calls _response_closed exactly once: not
\* before the caller closes it, once when it is closed, the underlying
\* close raising or not, and not again on a second close().
C12_ResponseClosedOncePerResponse ==
    \A t \in Threads :
        /\ pc[t] = "body" => loc[t].callbacks = 0
        /\ pc[t] \in ResponseClosedPcs => loc[t].callbacks = 1
        /\ (pc[t] = "done" /\ outcome[t] \in {"body_closed", "stream_error"})
                => loc[t].callbacks = 1

\* No call is in progress and no response is open.
Quiescent == \A t \in Threads : pc[t] = "idle"

IdlePooled == {c \in Pooled(connections) : handles[c].state = IDLE}

\* C13, the decision: _response_closed, having found its handle IDLE with a
\* keep-alive cap set, goes on from its count to remove and close the handle
\* exactly if more handles are pooled than the cap allows, and changes
\* nothing in deciding so.
C13_EvictedIffOverCap ==
    \A t \in Threads :
        (/\ pc[t] = "rc_iter" /\ pc'[t] # "rc_iter"
         /\ max_keepalive_connections # None)
            => /\ (pc'[t] = "rc_remove" /\ loc'[t].connections_to_close = {loc[t].connection})
                    <=> PooledCount > max_keepalive_connections
               /\ connections' = connections
               /\ sem_value' = sem_value
               /\ handles' = handles

\* C13, the eviction: the removal and the close that follow take this handle
\* out of the pool and close it, and touch no other handle.
C13_OnlyThatHandleEvicted ==
    \A t \in Threads :
        LET c == loc[t].connection
        IN  /\ StepFrom(t, "rc_remove") =>
                /\ pc'[t] # "rc_remove" => c \notin Pooled(connections')
                /\ \A o \in Origins :
                      dict_get(connections', o) \in
                          {dict_get(connections, o), dict_get(connections, o) \ {c}}
                /\ handles' = handles
            /\ StepFrom(t, "rc_close") =>
                /\ handles'[c].state = CLOSED
                /\ \A d \in Handles \ {c} : handles'[d] = handles[d]
                /\ connections' = connections

\* C13, the result: with every response closed and no call in progress, the
\* IDLE handles in the pool number at most max_keepalive_connections.
C13_IdleWithinCap ==
    (max_keepalive_connections # None /\ Quiescent)
        => Cardinality(IdlePooled) <= max_keepalive_connections

\* C13: the keep-alive cap: an IDLE handle is evicted on response close iff the
\* pool holds more handles than max_keepalive_connections, nothing else is
\* touched, and at rest the IDLE handles pooled are within the cap.
C13_KeepaliveCap ==
    /\ [](C13_IdleWithinCap)
    /\ [][C13_EvictedIffOverCap /\ C13_OnlyThatHandleEvicted]_vars

\* No request, _response_closed, sweep or close() is part-way through: every
\* thread is outside any call, at most holding an open response.
BetweenOperations == \A t \in Threads : pc[t] \in {"idle", "body"}

\* C14: between pool operations no CLOSED handle is a member of `connections`,
\* on the base pool and on the proxy paths, also after a connection.request
\* that raised.
C14_NoClosedHandlePooled ==
    BetweenOperations
        => \A c \in Pooled(connections) : handles[c].state # CLOSED

\* C15: a request whose URL has a scheme other than http and https fails with
\* UnsupportedProtocol, one whose host is empty with LocalProtocolError, on the
\* base pool and on the proxy, and it gets no further than that: it is over
\* with that error before it sweeps, scans, creates a handle or adds one.
C15_BadUrlRejectedAtOnce ==
    \A t \in Threads :
        loc[t].invalid # Nil => (pc[t] = "done" /\ outcome[t] = loc[t].invalid)

\* C16, the state after a failed handshake: a tunnel request that ended with
\* ProxyError has its auxiliary handle CLOSED and outside the pool, has made
\* no handle for the target, and no pooled handle uses the auxiliary socket.
C16_FailedHandshakeState ==
    \A t \in Threads :
        (pc[t] = "done" /\ outcome[t] = "ProxyError") =>
            /\ loc[t].proxy_connection # None
            /\ handles[loc[t].proxy_connection].state = CLOSED
            /\ loc[t].proxy_connection \notin Pooled(connections)
            /\ loc[t].connection = None
            /\ \A h \in Pooled(connections) :
                   handles[h].socket # loc[t].proxy_connection

\* C16, a CONNECT status outside 200..299 ends in ProxyError once the body
\* is drained and the status looked at.
C16_BadStatusIsProxyError ==
    \A t \in Threads :
        (loc[t].proxy_status = "other" /\ pc[t] \notin {"tunnel_drain", "tunnel_status"})
            => (pc[t] = "done" /\ outcome[t] = "ProxyError")

\* C16, the failing step: a handshake is left either for the construction of
\* the target's handle or with ProxyError, and the step that raises ProxyError
\* changes neither connections nor the semaphore count.
C16_FailingStep ==
    \A t \in Threads :
        /\ (pc[t] \in HandshakePcs /\ pc'[t] \notin HandshakePcs) =>
              \/ pc'[t] = "tunnel_new"
              \/ pc'[t] = "done" /\ outcome'[t] = "ProxyError"
        /\ (outcome[t] # "ProxyError" /\ outcome'[t] = "ProxyError") =>
              (connections' = connections /\ sem_value' = sem_value)

\* C16: on the tunnel path, a CONNECT status outside 200..299 or an exception
\* from the CONNECT request, the body drain or start_tls closes the auxiliary
\* proxy handle and fails the request with ProxyError, and the pool is as it
\* was: no handle inserted for the target, no semaphore slot acquired.
C16_HandshakeFailure ==
    /\ [](C16_FailedHandshakeState /\ C16_BadStatusIsProxyError)
    /\ [][C16_FailingStep]_vars

\* A handshake failed on a status outside 200..299 while another request's
\* tunnel handle sits in the pool.
C16_Witness ==
    \E t \in Threads :
        /\ pc[t] = "done"
        /\ outcome[t] = "ProxyError"
        /\ loc[t].proxy_status = "other"
        /\ loc[t].drained
        /\ handles[loc[t].proxy_connection].state = CLOSED
        /\ PooledCount > 0

\* C17, the sweep body: it is entered at a time that is not before the next
\* check the previous run of the body scheduled, which is that run's time
\* plus min(1 second, keepalive_expiry).
C17_SweepNotBeforeNextCheck ==
    \A t \in Threads :
        StepFrom(t, "sweep") => loc[t].now >= next_keepalive_check

\* C17, no expiry configured: no thread is ever inside the sweep body.
C17_NoExpiryNoSweep ==
    keepalive_expiry = None =>
        \A t \in Threads :
            pc[t] \notin {"sweep_check", "sweep", "sweep_iter", "sweep_loop", "sweep_expiry",
                          "sweep_due", "sweep_remove", "sweep_close"}

\* C17: between two runs of the sweep body at least min(1 second,
\* keepalive_expiry) of backend time passes, also with concurrent callers of
\* _keepalive_sweep, and with keepalive_expiry unset the body never runs.
C17_SweepRateLimited ==
    [](C17_NoExpiryNoSweep) /\ [][C17_SweepNotBeforeNextCheck]_vars

\* The thread is at `with self._connection_acquiry_lock` and the lock it got
\* from the property is taken.
WaitsForAcquiryLock(t) == pc[t] = "lock_enter" /\ ~lock_free(acquiry_lock, loc[t].lock)

\* The thread is in semaphore.acquire() and its semaphore has no permit free.
BlocksOnSemaphore(t) == pc[t] = "add" /\ ~sem_can_acquire(sem_value, loc[t].semaphore)

\* The thread is at `with self._thread_lock` and the lock is taken.
WaitsForThreadLock(t) ==
    /\ pc[t] \in {ThreadLockEntryPc} \cup RemoveFromPoolPcs
    /\ ~HoldsThreadLock(t)
    /\ ~ThreadLockFree

\* The thread's next step is a call of connection.request or
\* connection.close.
InConnectionCall(t) ==
    pc[t] \in {"request", "rc_close", "scan_close", "sweep_close", "close"}

\* The positions under `with self._thread_lock`: in _add_to_pool past
\* semaphore.acquire(), and in _remove_from_pool.
ThreadLockPcs == {"add_insert", "add_member"} \cup RemoveFromPoolPcs

\* Thread t waits for a lock that thread u holds.
WaitsOn(t, u) ==
    \/ WaitsForAcquiryLock(t) /\ acquiry_lock[loc[t].lock] = u
    \/ WaitsForThreadLock(t) /\ HoldsThreadLock(u)

\* C18, under the thread lock: its holder is in one of the two blocks, and
\* neither waits for the acquiry lock, nor is it in semaphore.acquire(), nor
\* in a call of connection.request or connection.close.
C18_ThreadLockIsInnermost ==
    \A t \in Threads :
        HoldsThreadLock(t) =>
            /\ pc[t] \in ThreadLockPcs
            /\ ~WaitsForAcquiryLock(t)
            /\ ~BlocksOnSemaphore(t)
            /\ ~InConnectionCall(t)

\* C18, the nesting: whoever is in semaphore.acquire() or enters the thread
\* lock inside request()'s critical section is a holder of an acquiry
\* lock, and one thread at most holds the thread lock.
C18_Nesting ==
    /\ \A t \in Threads :
          ((InAddToPool(t) \/ pc[t] = "scan_remove") /\ loc[t].path = "pool")
              => HoldsAcquiryLock(t)
    /\ \A t, u \in Threads : (HoldsThreadLock(t) /\ HoldsThreadLock(u)) => t = u

\* C18, no cycle: no two threads wait for a lock the other one holds.
C18_NoLockCycle ==
    \A t, u \in Threads : ~(t # u /\ WaitsOn(t, u) /\ WaitsOn(u, t))

\* C18: no thread waits for the acquiry lock or blocks on the semaphore
\* while it holds the thread lock, no connection.request or connection.close
\* runs under the thread lock, the only nesting is acquiry lock, then
\* semaphore, then thread lock, and no reachable state has threads waiting
\* on each other's locks.
C18_LockDiscipline ==
    C18_ThreadLockIsInnermost /\ C18_Nesting /\ C18_NoLockCycle

\* One thread holds an acquiry lock and, inside it, the thread lock, after
\* its semaphore.acquire() returned, while the other thread waits for that
\* acquiry lock.
C18_Witness ==
    \E t, u \in Threads :
        /\ t # u
        /\ HoldsAcquiryLock(t)
        /\ HoldsThreadLock(t)
        /\ pc[t] = "add_insert"
        /\ WaitsForAcquiryLock(u)
        /\ acquiry_lock[loc[u].lock] = t

\* The tunnel request, if any, that holds handle h as its new connection
\* after a complete handshake: CONNECT answered 2xx, body drained, start_tls
\* done when the target is https, h made for the target's origin on the
\* auxiliary handle's socket.
EstablishedBy(t, h) ==
    /\ loc[t].connection = h
    /\ loc[t].proxy_connection # None
    /\ loc[t].proxy_status = "2xx"
    /\ loc[t].drained
    /\ loc[t].origin[1] = "https" => loc[t].tls
    /\ handles[h].origin = loc[t].origin
    /\ handles[h].socket # None
    /\ handles[h].socket = handles[loc[t].proxy_connection].socket

\* C19, the inserting step: a handle that joins connections is the one a
\* tunnel request has just established.
C19_InsertedAfterHandshake ==
    \A h \in Pooled(connections') \ Pooled(connections) :
        \E t \in Threads : EstablishedBy(t, h)

\* C19, the pool's members: every pooled handle has a target's origin and
\* the socket of a proxy-origin handle, and no proxy-origin handle, the
\* auxiliary handle of a running request included, is pooled.
C19_AuxNeverPooled ==
    /\ \A h \in Pooled(connections) :
          /\ handles[h].origin # ProxyOrigin
          /\ handles[h].socket # None
          /\ handles[handles[h].socket].origin = ProxyOrigin
    /\ \A t \in Threads :
          loc[t].proxy_connection # None =>
              loc[t].proxy_connection \notin Pooled(connections)

\* C19: on the tunnel path with nothing to reuse, a handle is inserted only
\* after CONNECT returned 2xx and its body was drained and, for an https
\* target, after start_tls on the auxiliary handle; the inserted handle has
\* the target's origin and the auxiliary handle's socket; the auxiliary
\* handle is never a member of connections.
C19_TunnelEstablishmentOrder ==
    [](C19_AuxNeverPooled) /\ [][C19_InsertedAfterHandshake]_vars

\* A tunnel handle for an https target is pooled, on the socket the
\* auxiliary handle opened, while its request is in flight.
C19_Witness ==
    \E t \in Threads :
        /\ pc[t] = "request"
        /\ loc[t].origin[1] = "https"
        /\ loc[t].tls
        /\ loc[t].connection \in dict_get(connections, loc[t].origin)
        /\ handles[loc[t].connection].socket = loc[t].proxy_connection

\* C20: on the proxy pool, forward path and tunnel path, the scan, the
\* construction and the insertion are serialized as on the base pool: an
\* HTTP/1.1 handle that one proxy request's scan returned for reuse is not
\* returned by another request's scan before the first one's response body
\* is closed.
C20_ProxyReuseHasOneCaller ==
    kind = "proxy" =>
        \A t, u \in Threads :
            (t # u /\ loc[t].reused /\ loc[u].reused
                   /\ is_http11(handles[loc[t].connection]))
                => loc[t].connection # loc[u].connection

\* C21: a request() with a finite pool timeout, once it stands at the acquiry
\* lock, eventually reaches connection.request or raises PoolTimeout,
\* whatever the other requesters do (as long as a handle id is left for it
\* to construct a handle with).
C21_AdmissionBoundedByPoolTimeout ==
    \A t \in Threads :
        (pc[t] = "acquire" /\ loc[t].timeout # None)
            ~> \/ pc[t] = "request"
               \/ pc[t] = "done" /\ outcome[t] = "PoolTimeout"
               \/ nhandles = MaxHandles

\* A handle that is committed to a requester.
Committed(h) == h.state \in {READY, ACTIVE, PENDING}

\* C22, the removals: the handle that the sweep, the scan or the keep-alive
\* cap takes out of the pool is not committed to a requester.
C22_EvictionsRemoveIdleHandlesOnly ==
    \A t \in Threads :
        /\ (StepFrom(t, "sweep_remove") \/ StepFrom(t, "scan_remove"))
              => ~Committed(handles[loc[t].current])
        /\ (StepFrom(t, "rc_remove") /\ loc[t].connections_to_close # {})
              => ~Committed(handles[loc[t].connection])

\* C22, the closes: neither is the handle that they close.
C22_EvictionsCloseIdleHandles ==
    \A t \in Threads :
        (StepFrom(t, "sweep_close") \/ StepFrom(t, "scan_close") \/ StepFrom(t, "rc_close"))
            => \A c \in Handles : handles'[c] # handles[c] => ~Committed(handles[c])

\* C22: close() of the pool apart, the pool closes no handle that is
\* committed to a requester: whatever the sweep, the dead-peer eviction or
\* the keep-alive-cap eviction removes and closes is not READY, ACTIVE or
\* PENDING when it is removed and when it is closed, also with a scan
\* running in another thread.
C22_EvictionsCloseIdleHandlesOnly ==
    [][C22_EvictionsRemoveIdleHandlesOnly /\ C22_EvictionsCloseIdleHandles]_vars

\* The socket s is the socket of a pooled handle.
SocketPooled(s) ==
    \E h \in Pooled(connections) : handles[h].socket = s

\* The socket s was closed: a handle that holds it was closed.
SocketClosed(s) ==
    \E h \in Handles : handles[h].socket = s /\ handles[h].state = CLOSED

\* The running call of thread t is a tunnel request whose CONNECT was
\* answered 2xx: the socket of its auxiliary handle is a tunnel.
Tunnelled(t) ==
    /\ loc[t].path = "tunnel"
    /\ loc[t].proxy_connection # None
    /\ loc[t].proxy_status = "2xx"
    /\ loc[t].drained

\* C23: once the CONNECT handshake has succeeded, whenever _tunnel_request
\* returns or raises, the tunnelled socket belongs to a pooled handle or has
\* been closed, also when _add_to_pool raised PoolTimeout after the handshake.
C23_NoTunnelledSocketOrphaned ==
    \A t \in Threads :
        (pc[t] = "done" /\ Tunnelled(t)) =>
            LET s == handles[loc[t].proxy_connection].socket
            IN  SocketPooled(s) \/ SocketClosed(s)

====
